---- MODULE Spec2Model ----
(***************************************************************************)
(* Repose: a local-first journal.  One entry per calendar date, stored as  *)
(* a pair of files (<date>.json metadata, <date>.html body) in a directory *)
(* the user picked; a tag mutator rewrites many entries; the dashboard     *)
(* persists the mutator's result entry by entry.                           *)
(*                                                                         *)
(* A JavaScript object is a function from the keys whose value is defined  *)
(* to their values (a property set to undefined reads and serializes like  *)
(* a missing one).  A file's text is a sequence of string tokens.          *)
(***************************************************************************)
EXTENDS Integers, Sequences, FiniteSets, Bags, TLC

(***************************************************************************)
(* Bounds                                                                  *)
(***************************************************************************)
\* number of user-started operations of a run; each starts at a new instant
\* of the wall clock
MaxClock == 3

\* date keys of the model
Dates == {"d1", "d2"}

(***************************************************************************)
(* Strings: a string is spelled as a sequence of characters so that        *)
(* toLowerCase / trim can be computed.                                     *)
(***************************************************************************)
TagStrings ==
  {"", "a", "A", " a", "A ", "b", "B", "c", "d", "a b", " A b", "a  b", "a-b"}

Spell(s) ==
  CASE s = ""   -> <<>>
    [] s = "a"  -> <<"a">>
    [] s = "A"  -> <<"A">>
    [] s = " a" -> <<" ", "a">>
    [] s = "A " -> <<"A", " ">>
    [] s = "b"  -> <<"b">>
    [] s = "B"  -> <<"B">>
    [] s = "c"  -> <<"c">>
    [] s = "d"  -> <<"d">>
    [] s = "a b"  -> <<"a", " ", "b">>
    [] s = " A b" -> <<" ", "A", " ", "b">>
    [] s = "a  b" -> <<"a", " ", " ", "b">>
    [] s = "a-b"  -> <<"a", "-", "b">>
    [] s = " "    -> <<" ">>
    [] s = "t0"   -> <<"t", "0">>
    [] s = "t1"   -> <<"t", "1">>

\* entry titles the editor may hold
TitleStrings == {"", " ", "t0", "t1"}

Unspell(cs) == CHOOSE s \in TagStrings \cup TitleStrings : Spell(s) = cs

LowerChar(ch) ==
  CASE ch = "A" -> "a"
    [] ch = "B" -> "b"
    [] OTHER    -> ch

toLowerCase(cs) == [i \in 1..Len(cs) |-> LowerChar(cs[i])]

IsSpace(ch) == ch = " "

RECURSIVE trimStart(_)
trimStart(cs) ==
  IF cs # <<>> /\ IsSpace(Head(cs)) THEN trimStart(Tail(cs)) ELSE cs

RECURSIVE trimEnd(_)
trimEnd(cs) ==
  IF cs # <<>> /\ IsSpace(cs[Len(cs)])
  THEN trimEnd(SubSeq(cs, 1, Len(cs) - 1))
  ELSE cs

trim(cs) == trimEnd(trimStart(cs))

\* tag.toLowerCase().trim()
normalizeTag(tag) == Unspell(trim(toLowerCase(Spell(tag))))

RECURSIVE hyphenate(_)
\* cs.replace(/\s+/g, '-'): every maximal run of white space becomes one hyphen
hyphenate(cs) ==
  IF cs = <<>> THEN <<>>
  ELSE IF IsSpace(Head(cs))
       THEN <<"-">> \o hyphenate(trimStart(cs))
       ELSE <<Head(cs)>> \o hyphenate(Tail(cs))

\* types.ts of the repository root: tag.toLowerCase().trim().replace(/\s+/g, '-')
normalizeTagHyphenating(tag) == Unspell(hyphenate(trim(toLowerCase(Spell(tag)))))

\* newTagName.trim() / mergeTarget.trim() / title.trim()
trimmed(name) == Unspell(trim(Spell(name)))

\* the characters of /^[a-zA-Z0-9_-]+$/
IsTagChar(ch) == ch \in {"a", "b", "c", "d", "t", "A", "B", "0", "1", "_", "-"}

MaxTagLength == 30

\* validateTag(tag).valid
validateTag(tag) ==
  LET cs == Spell(tag)
  IN  /\ ~(tag = "" \/ trim(cs) = <<>>)
      /\ ~(Len(cs) > MaxTagLength)
      /\ \A i \in 1..Len(cs) : IsTagChar(cs[i])

(***************************************************************************)
(* Arrays                                                                  *)
(***************************************************************************)
includes(arr, x) == \E i \in 1..Len(arr) : arr[i] = x

\* self.indexOf(x): first position of x, 0 when absent
indexOf(arr, x) ==
  IF includes(arr, x)
  THEN CHOOSE i \in 1..Len(arr) : arr[i] = x /\ \A j \in 1..(i - 1) : arr[j] # x
  ELSE 0

RECURSIVE filterSeq(_, _)
\* arr.filter(x => x \in keep), order kept
filterSeq(arr, keep) ==
  IF arr = <<>> THEN <<>>
  ELSE IF Head(arr) \in keep
       THEN <<Head(arr)>> \o filterSeq(Tail(arr), keep)
       ELSE filterSeq(Tail(arr), keep)

RECURSIVE dedupeFrom(_, _)
dedupeFrom(arr, i) ==
  IF i > Len(arr) THEN <<>>
  ELSE IF indexOf(arr, arr[i]) = i
       THEN <<arr[i]>> \o dedupeFrom(arr, i + 1)
       ELSE dedupeFrom(arr, i + 1)

\* arr.filter((tag, index, self) => self.indexOf(tag) === index)
dedupe(arr) == dedupeFrom(arr, 1)

Elems(arr) == {arr[i] : i \in 1..Len(arr)}

NoDup(arr) == \A i, j \in 1..Len(arr) : arr[i] = arr[j] => i = j

Count(arr, x) == Cardinality({i \in 1..Len(arr) : arr[i] = x})

(***************************************************************************)
(* Objects                                                                 *)
(***************************************************************************)
EmptyObj == [k \in {} |-> ""]

Has(obj, k) == k \in DOMAIN obj

\* { ...a, ...b }
Spread(a, b) ==
  [k \in DOMAIN a \cup DOMAIN b |-> IF k \in DOMAIN b THEN b[k] ELSE a[k]]

\* the properties of obj named in ks that are defined
Pick(obj, ks) == [k \in ks \cap DOMAIN obj |-> obj[k]]

Without(obj, ks) == [k \in DOMAIN obj \ ks |-> obj[k]]

\* property order of a JournalEntry literal
KeyOrder ==
  <<"title", "mood", "timestamp", "weatherContext", "tags", "createdAt", "updatedAt">>

RequiredKeys == {"title", "mood", "timestamp"}

(***************************************************************************)
(* JSON text.  Tokens: "{" key value ... "}", a value being a string token *)
(* or "[" string tokens "]".                                               *)
(***************************************************************************)
Punct == {"{", "}", "[", "]"}

ValueTokens(v, isArray) == IF isArray THEN <<"[">> \o v \o <<"]">> ELSE <<v>>

RECURSIVE StringifyFrom(_, _)
StringifyFrom(obj, i) ==
  IF i > Len(KeyOrder) THEN <<>>
  ELSE IF Has(obj, KeyOrder[i])
       THEN <<KeyOrder[i]>> \o ValueTokens(obj[KeyOrder[i]], KeyOrder[i] = "tags")
              \o StringifyFrom(obj, i + 1)
       ELSE StringifyFrom(obj, i + 1)

\* JSON.stringify(entry, null, 2): properties whose value is undefined are left out
Stringify(obj) == <<"{">> \o StringifyFrom(obj, 1) \o <<"}">>

RECURSIVE ParseItems(_, _, _)
ParseItems(text, i, acc) ==
  IF i > Len(text) THEN [ok |-> FALSE, value |-> acc, next |-> i]
  ELSE IF text[i] = "]" THEN [ok |-> TRUE, value |-> acc, next |-> i + 1]
  ELSE IF text[i] \in Punct THEN [ok |-> FALSE, value |-> acc, next |-> i]
  ELSE ParseItems(text, i + 1, Append(acc, text[i]))

RECURSIVE ParseMembers(_, _, _)
ParseMembers(text, i, obj) ==
  IF i > Len(text) THEN [ok |-> FALSE, value |-> EmptyObj]
  ELSE IF text[i] = "}" THEN [ok |-> i = Len(text), value |-> obj]
  ELSE IF text[i] \in Punct \/ i + 1 > Len(text) THEN [ok |-> FALSE, value |-> EmptyObj]
  ELSE IF text[i + 1] = "["
       THEN LET items == ParseItems(text, i + 2, <<>>)
            IN  IF items.ok
                THEN ParseMembers(text, items.next,
                                  Spread(obj, [k \in {text[i]} |-> items.value]))
                ELSE [ok |-> FALSE, value |-> EmptyObj]
  ELSE IF text[i + 1] \in Punct THEN [ok |-> FALSE, value |-> EmptyObj]
  ELSE ParseMembers(text, i + 2, Spread(obj, [k \in {text[i]} |-> text[i + 1]]))

\* JSON.parse(text): ok = FALSE when it throws
Parse(text) ==
  IF text # <<>> /\ text[1] = "{"
  THEN ParseMembers(text, 2, EmptyObj)
  ELSE [ok |-> FALSE, value |-> EmptyObj]

(***************************************************************************)
(* The directory: file name -> [kind, text].  A name is <<stem, ext>>,     *)
(* standing for "<stem>.<ext>".                                            *)
(***************************************************************************)
Name(stem, ext) == <<stem, ext>>

ConfigName == Name("config", "json")

MetaName(date) == Name(date, "json")

BodyName(date) == Name(date, "html")

File(text) == [kind |-> "file", text |-> text]

Folder == [kind |-> "directory", text |-> <<>>]

\* handle.getFileHandle(name) -> getFile() -> text(); ok = FALSE when it throws
FileText(d, name) ==
  IF name \in DOMAIN d /\ d[name].kind = "file"
  THEN [ok |-> TRUE, text |-> d[name].text]
  ELSE [ok |-> FALSE, text |-> <<>>]

\* handle.getFileHandle(name, { create: true }): an absent file comes to exist, empty
CreateIfMissing(d, name) ==
  IF name \in DOMAIN d THEN d
  ELSE [n \in DOMAIN d \cup {name} |-> IF n = name THEN File(<<>>) ELSE d[n]]

\* writable.write(text); writable.close(): the text replaces the file's content
PutText(d, name, text) ==
  [n \in DOMAIN d \cup {name} |-> IF n = name THEN File(text) ELSE d[n]]

\* handle.removeEntry(name)
RemoveFile(d, name) == [n \in DOMAIN d \ {name} |-> d[n]]

\* variant: a missing body file reads as an empty body
readEntryPartial(d, date) ==
  LET meta == FileText(d, MetaName(date))
      metadata == Parse(meta.text)
      body == FileText(d, BodyName(date))
  IN  IF meta.ok /\ metadata.ok
      THEN [found |-> TRUE,
            value |-> Spread(metadata.value, [k \in {"body"} |-> body.text])]
      ELSE [found |-> FALSE, value |-> EmptyObj]

\* readEntry(handle, date): found = FALSE is the null result
readEntry(d, date) ==
  LET meta == FileText(d, MetaName(date))
      metadata == Parse(meta.text)
      body == FileText(d, BodyName(date))
  IN  IF meta.ok /\ metadata.ok /\ body.ok
      THEN [found |-> TRUE,
            value |-> Spread(metadata.value, [k \in {"body"} |-> body.text])]
      ELSE [found |-> FALSE, value |-> EmptyObj]

\* readConfig(handle): the decoded config.json, or null when the file is
\* missing or is not JSON
readConfig(d) ==
  LET file == FileText(d, ConfigName)
      config == Parse(file.text)
  IN  IF file.ok /\ config.ok
      THEN [found |-> TRUE, value |-> config.value]
      ELSE [found |-> FALSE, value |-> EmptyObj]

\* writeConfig(handle, config), once its writable is closed
WrittenConfig(d, config) == PutText(d, ConfigName, <<"{", "name", config.name, "}">>)

\* the names listEntries tries to decode
ListCandidates(d) ==
  {n \in DOMAIN d : d[n].kind = "file" /\ n[2] = "json" /\ n # ConfigName}

\* variant: the first document that does not parse ends the enumeration with nothing
listEntriesAborting(d) ==
  IF \E m \in ListCandidates(d) : ~Parse(d[m].text).ok
  THEN EmptyObj
  ELSE [date \in {n[1] : n \in ListCandidates(d)} |-> Parse(d[MetaName(date)].text).value]

\* variant: a document without title, mood or timestamp is left out too
listEntriesValidating(d) ==
  [date \in {n[1] : n \in {m \in ListCandidates(d) :
                             /\ Parse(d[m].text).ok
                             /\ RequiredKeys \subseteq DOMAIN Parse(d[m].text).value}}
     |-> Parse(d[MetaName(date)].text).value]

\* listEntries(handle): a name whose text does not parse is logged and left out
listEntries(d) ==
  [date \in {n[1] : n \in {m \in ListCandidates(d) : Parse(d[m].text).ok}}
     |-> Parse(d[MetaName(date)].text).value]

(***************************************************************************)
(* Tag mutator (pure functions over the entry map)                         *)
(***************************************************************************)
Tagged(entries, tag) ==
  {id \in DOMAIN entries : Has(entries[id], "tags") /\ includes(entries[id].tags, tag)}

\* variant: the replaced list is not de-duplicated
renameTagInEntriesNoDedupe(entries, oldTag, newTag, now) ==
  LET oldTagNorm == normalizeTag(oldTag)
      newTagNorm == normalizeTag(newTag)
  IN  IF oldTagNorm = newTagNorm THEN entries
      ELSE [id \in Tagged(entries, oldTagNorm) |->
              Spread(entries[id],
                     [tags |-> [i \in 1..Len(entries[id].tags) |->
                                  IF entries[id].tags[i] = oldTagNorm
                                  THEN newTagNorm
                                  ELSE entries[id].tags[i]],
                      updatedAt |-> now])]

\* variant: the new tag is added and the old one stays
renameTagInEntriesKeepsOld(entries, oldTag, newTag, now) ==
  LET oldTagNorm == normalizeTag(oldTag)
      newTagNorm == normalizeTag(newTag)
  IN  IF oldTagNorm = newTagNorm THEN entries
      ELSE [id \in Tagged(entries, oldTagNorm) |->
              Spread(entries[id],
                     [tags |-> dedupe(entries[id].tags \o <<newTagNorm>>),
                      updatedAt |-> now])]

renameTagInEntries(entries, oldTag, newTag, now) ==
  LET oldTagNorm == normalizeTag(oldTag)
      newTagNorm == normalizeTag(newTag)
  IN  IF oldTagNorm = newTagNorm THEN entries
      ELSE [id \in Tagged(entries, oldTagNorm) |->
              Spread(entries[id],
                     [tags |-> dedupe([i \in 1..Len(entries[id].tags) |->
                                         IF entries[id].tags[i] = oldTagNorm
                                         THEN newTagNorm
                                         ELSE entries[id].tags[i]]),
                      updatedAt |-> now])]

deleteTagFromEntries(entries, tagToDelete, now) ==
  LET tagNorm == normalizeTag(tagToDelete)
  IN  [id \in Tagged(entries, tagNorm) |->
         Spread(entries[id],
                [tags |-> filterSeq(entries[id].tags, Elems(entries[id].tags) \ {tagNorm}),
                 updatedAt |-> now])]

\* variant: the merged tags stay next to the target
mergeTagsInEntriesKeepsMerged(entries, tagsToMerge, targetTag, now) ==
  LET tagsNorm == [i \in 1..Len(tagsToMerge) |-> normalizeTag(tagsToMerge[i])]
      targetNorm == normalizeTag(targetTag)
      hasAnyTag(id) == /\ Has(entries[id], "tags")
                       /\ \E i \in 1..Len(entries[id].tags) :
                             includes(tagsNorm, entries[id].tags[i])
  IN  [id \in {id \in DOMAIN entries : hasAnyTag(id)} |->
         Spread(entries[id],
                [tags |-> dedupe(entries[id].tags \o <<targetNorm>>),
                 updatedAt |-> now])]

\* variant: the target is appended without de-duplication
mergeTagsInEntriesNoDedupe(entries, tagsToMerge, targetTag, now) ==
  LET tagsNorm == [i \in 1..Len(tagsToMerge) |-> normalizeTag(tagsToMerge[i])]
      targetNorm == normalizeTag(targetTag)
      hasAnyTag(id) == /\ Has(entries[id], "tags")
                       /\ \E i \in 1..Len(entries[id].tags) :
                             includes(tagsNorm, entries[id].tags[i])
  IN  [id \in {id \in DOMAIN entries : hasAnyTag(id)} |->
         Spread(entries[id],
                [tags |-> filterSeq(entries[id].tags,
                                    Elems(entries[id].tags) \ Elems(tagsNorm))
                            \o <<targetNorm>>,
                 updatedAt |-> now])]

mergeTagsInEntries(entries, tagsToMerge, targetTag, now) ==
  LET tagsNorm == [i \in 1..Len(tagsToMerge) |-> normalizeTag(tagsToMerge[i])]
      targetNorm == normalizeTag(targetTag)
      hasAnyTag(id) == /\ Has(entries[id], "tags")
                       /\ \E i \in 1..Len(entries[id].tags) :
                             includes(tagsNorm, entries[id].tags[i])
  IN  [id \in {id \in DOMAIN entries : hasAnyTag(id)} |->
         Spread(entries[id],
                [tags |-> dedupe(filterSeq(entries[id].tags,
                                           Elems(entries[id].tags) \ Elems(tagsNorm))
                                 \o <<targetNorm>>),
                 updatedAt |-> now])]

\* variant: the requested tags are compared as given
filterEntriesByTagsRaw(entries, tags, operator) ==
  IF Len(tags) = 0 THEN entries
  ELSE LET entryTags(id) ==
             IF Has(entries[id], "tags")
             THEN [i \in 1..Len(entries[id].tags) |-> normalizeTag(entries[id].tags[i])]
             ELSE <<>>
           matches(id) ==
             IF operator = "AND"
             THEN \A i \in 1..Len(tags) : includes(entryTags(id), tags[i])
             ELSE \E i \in 1..Len(tags) : includes(entryTags(id), tags[i])
       IN  [id \in {x \in DOMAIN entries : matches(x)} |-> entries[id]]

filterEntriesByTags(entries, tags, operator) ==
  IF Len(tags) = 0 THEN entries
  ELSE LET normalizedTags == [i \in 1..Len(tags) |-> normalizeTag(tags[i])]
           entryTags(id) ==
             IF Has(entries[id], "tags")
             THEN [i \in 1..Len(entries[id].tags) |-> normalizeTag(entries[id].tags[i])]
             ELSE <<>>
           matches(id) ==
             IF operator = "AND"
             THEN \A i \in 1..Len(normalizedTags) :
                    includes(entryTags(id), normalizedTags[i])
             ELSE \E i \in 1..Len(normalizedTags) :
                    includes(entryTags(id), normalizedTags[i])
       IN  [id \in {x \in DOMAIN entries : matches(x)} |-> entries[id]]

(***************************************************************************)
(* State                                                                   *)
(***************************************************************************)
VARIABLES
  dir,            \* the journal directory on disk
  clock,          \* index of the current instant of the wall clock
  wcall,          \* caller -> the writeEntry call it has in flight
  dcall,          \* the deleteEntry call in flight
  entries,        \* FolderContext: the in-memory index, date -> metadata
  selectedTags,   \* Dashboard: the active tag selection
  isUpdatingTags, \* Dashboard: a tag operation is running
  tagop,          \* Dashboard: the running handleRenameTag / DeleteTag / MergeTags
  done,           \* history: date -> the writes completed since a removal or a failed write
  dlog,           \* history: the deleteEntry calls completed since the last other operation
  lab,            \* history of the tag mutator's applications (SpecTags)
  editor,         \* JournalEditor: the editor page's state
  entriesVersion, \* FolderContext: refreshEntries calls made / reloads they caused
  listings,       \* FolderContext: the bag of listEntries calls of the effect that have not returned
  refreshedAt,    \* history (SpecRefresh): the directory at the last refreshEntries call
  removed,        \* history (SpecRefresh): the dates whose metadata file a returned deleteEntry removed
  folderHandle,   \* FolderContext: "null", or "handle" when a directory handle is held
  userConfig,     \* FolderContext: the loaded profile, if any
  home            \* Home: the page's state and its handlers in flight

vars == <<dir, clock, wcall, dcall, entries, selectedTags, isUpdatingTags, tagop,
          done, dlog, lab, editor, entriesVersion, listings, refreshedAt, removed,
          folderHandle, userConfig, home>>

Instants == <<"T0", "T1", "T2", "T3", "T4", "T5", "T6", "T7">>

\* new Date().toISOString()
Now == Instants[clock + 1]

\* the editor may have two saves awaiting at once ("client", "client2"); the
\* dashboard's loop awaits one write at a time ("dash")
EditorCallers == {"client", "client2"}

Callers == EditorCallers \cup {"dash"}

IdleWrite == [pc |-> "idle", date |-> "", entry |-> EmptyObj, body |-> <<>>]

IdleDelete == [pc |-> "idle", date |-> "", meta |-> "none", body |-> "none"]

\* updated / todo: the handler's updatedEntries and the dates its loop has yet
\* to visit; base / sel: the index and the selection the handler closed over.
\* History: wrote / skipped (the dates whose write resolved, whose re-read
\* returned null), tags0 (the tags on disk when the handler started), attempt
\* (1, or 2 when the handler is started again with the same arguments after
\* it failed), prior (the dates the failed attempt had written), expect (the
\* tags on disk had the first attempt gone through), frame0 (what the disk
\* held for each date, tags and updatedAt aside, when the handler started)
IdleTagOp ==
  [pc |-> "idle", kind |-> "", old |-> "", new |-> "", merge |-> <<>>,
   updated |-> EmptyObj, todo |-> {}, base |-> EmptyObj, sel |-> <<>>,
   wrote |-> {}, skipped |-> {},
   tags0 |-> [d \in Dates |-> <<>>], attempt |-> 0, prior |-> {},
   expect |-> [d \in Dates |-> <<>>], frame0 |-> [d \in Dates |-> EmptyObj]]

\* nothing of the program is suspended in the middle of a storage call
Quiet ==
  /\ \A c \in Callers : wcall[c].pc = "idle"
  /\ dcall.pc = "idle"
  /\ tagop.pc \in {"idle", "done", "failed"}

(***************************************************************************)
(* TagInput and the editor page's state                                    *)
(***************************************************************************)
maxTags == 20

\* variant: a tag already in the list is appended again
addTagNoIncludesCheck(tags, tag) ==
  LET normalized == normalizeTag(tag)
  IN  IF normalized = "" THEN tags
      ELSE IF Len(tags) >= maxTags THEN tags
      ELSE IF ~validateTag(normalized) THEN tags
      ELSE Append(tags, normalized)

\* TagInput.addTag(tag): the list handed to onChange, or the list as it is
\* when the handler returns early
addTag(tags, tag) ==
  LET normalized == normalizeTag(tag)
  IN  IF normalized = "" THEN tags
      ELSE IF includes(tags, normalized) THEN tags
      ELSE IF Len(tags) >= maxTags THEN tags
      ELSE IF ~validateTag(normalized) THEN tags
      ELSE Append(tags, normalized)

\* TagInput.removeTag(tagToRemove): tags.filter(t => t !== tagToRemove)
removeTag(tags, tagToRemove) == filterSeq(tags, Elems(tags) \ {tagToRemove})

\* an autoSave call that has not returned: the values its closure holds, what
\* started it, whether the page it belongs to is still mounted.  History:
\* afterQuiet (a timer started it, and no edit had been made since the quiet
\* period ran out)
NoSave ==
  [active |-> FALSE, origin |-> "", title |-> "", body |-> <<>>, mood |-> "",
   tags |-> <<>>, mounted |-> FALSE, afterQuiet |-> FALSE]

\* the state of the editor page.  mood "" is null.  timers: the setTimeout
\* callbacks of the debounce effect that have neither run nor been cleared.
\* weatherContext "" is null; fetch: "running" while the getWeatherContext
\* call of the fetchWeather effect has not returned.
\* History: quiet ("edited" from an edit until the debounce delay has passed
\* without another one)
ClosedEditor ==
  [open |-> FALSE, date |-> "", title |-> "", body |-> <<>>, mood |-> "",
   tags |-> <<>>, initialTitle |-> "", initialBody |-> <<>>, initialMood |-> "",
   initialTags |-> <<>>, isExisting |-> FALSE, isPreviewMode |-> FALSE,
   saveStatus |-> "idle", timers |-> <<>>,
   quiet |-> "elapsed", saves |-> [c \in EditorCallers |-> NoSave],
   isDeleting |-> FALSE, error |-> "", isLoading |-> FALSE,
   weatherContext |-> "", fetch |-> "idle"]

\* the date isToday() holds of
Today == "d2"

\* the editor page of a date without an entry, once loadEntry has run; the
\* fetchWeather effect of the first render (isExisting false) has called
\* getWeatherContext when the date is today
BlankEditor(date) ==
  [ClosedEditor EXCEPT !.open = TRUE, !.date = date,
                       !.fetch = IF date = Today THEN "running" ELSE "idle"]

\* userConfig === null
NoConfig == [found |-> FALSE, value |-> EmptyObj]

\* the Home page with no handler running.  select / unlock / start: where
\* handleSelectFolder, handleUnlock and handleStartJournaling are suspended.
\* History: pickedFrom (the readiness when the directory picker was opened)
IdleHome ==
  [select |-> "idle", unlock |-> "idle", start |-> "idle", name |-> "",
   needsUnlock |-> FALSE, isUnlocking |-> FALSE, isSaving |-> FALSE,
   error |-> "", pickedFrom |-> ""]

hasChanges(ed) ==
  \/ ed.title # ed.initialTitle
  \/ ed.body # ed.initialBody
  \/ ed.mood # ed.initialMood
  \/ ed.tags # ed.initialTags

\* the callback the effect hands to setTimeout: autoSave of this render
NewTimer(ed) ==
  [due |-> FALSE, title |-> ed.title, body |-> ed.body, mood |-> ed.mood,
   tags |-> ed.tags, isExisting |-> ed.isExisting,
   weatherContext |-> ed.weatherContext]

ShouldSchedule(ed) ==
  hasChanges(ed) /\ trimmed(ed.title) # "" /\ ed.mood # "" /\ ~ed.isPreviewMode

\* variant: the pending timer is not cleared
debounceEffectKeepsPending(ed) ==
  [ed EXCEPT !.timers = IF ShouldSchedule(ed) THEN Append(@, NewTimer(ed)) ELSE @]

\* the debounce effect, run after a render that changed one of its
\* dependencies: clearTimeout(autoSaveTimerRef.current), then a new timer
\* when there is something to save
debounceEffect(ed) ==
  [ed EXCEPT !.timers = IF ShouldSchedule(ed) THEN <<NewTimer(ed)>> ELSE <<>>]

(***************************************************************************)
(* Directories the user may pick                                           *)
(***************************************************************************)
ConfigText == <<"{", "name", "Ann", "}">>

\* what may lie in the picked directory for one date before the program runs
DateStates ==
  { [meta |-> <<>>, body |-> <<>>, hasMeta |-> FALSE, hasBody |-> FALSE],
    \* a complete entry
    [meta |-> Stringify([title |-> "t0", mood |-> "content", timestamp |-> "T0",
                         weatherContext |-> "w0", tags |-> <<"a", "b">>,
                         createdAt |-> "T0", updatedAt |-> "T0"]),
     body |-> <<"<p>x</p>">>, hasMeta |-> TRUE, hasBody |-> TRUE],
    \* metadata that is not JSON
    [meta |-> <<"{", "title">>, body |-> <<"<p>x</p>">>, hasMeta |-> TRUE, hasBody |-> TRUE],
    \* JSON metadata without title and mood
    [meta |-> <<"{", "timestamp", "T0", "tags", "[", "b", "]", "}">>,
     body |-> <<"<p>y</p>">>, hasMeta |-> TRUE, hasBody |-> TRUE] }

EmptyDir == [n \in {} |-> File(<<>>)]

DirOf(st, withConfig, withFolder) ==
  LET names == {MetaName(d) : d \in {x \in Dates : st[x].hasMeta}}
                 \cup {BodyName(d) : d \in {x \in Dates : st[x].hasBody}}
                 \cup (IF withConfig THEN {ConfigName} ELSE {})
                 \cup (IF withFolder THEN {Name("archive", "json")} ELSE {})
  IN  [n \in names |->
         IF n = ConfigName THEN File(ConfigText)
         ELSE IF n = Name("archive", "json") THEN Folder
         ELSE IF n[2] = "json" THEN File(st[n[1]].meta)
         ELSE File(st[n[1]].body)]

\* metadata whose body file is missing (a first save that failed half way)
BodylessState ==
  [meta |-> Stringify([title |-> "t3", mood |-> "content", timestamp |-> "T0",
                       tags |-> <<"a">>, createdAt |-> "T0", updatedAt |-> "T0"]),
   body |-> <<>>, hasMeta |-> TRUE, hasBody |-> FALSE]

\* a journal as the dashboard finds it: one complete entry, and next to it
\* any of the above
DashDirs ==
  {DirOf(st, TRUE, TRUE) :
     st \in {f \in [Dates -> DateStates \cup {BodylessState}] : f["d1"].hasBody /\ Parse(f["d1"].meta).ok /\ "title" \in DOMAIN Parse(f["d1"].meta).value}}

\* a fresh directory, or one that holds a profile and earlier files
InitDirs ==
  {EmptyDir} \cup {DirOf(st, TRUE, TRUE) : st \in [Dates -> DateStates]}

Init ==
  /\ dir \in InitDirs
  /\ clock = 0
  /\ wcall = [c \in Callers |-> IdleWrite]
  /\ dcall = IdleDelete
  /\ entries = EmptyObj
  /\ selectedTags = <<>>
  /\ isUpdatingTags = FALSE
  /\ tagop = IdleTagOp
  /\ done = [d \in Dates |-> <<>>]
  /\ dlog = <<>>
  /\ lab = <<>>
  /\ editor = ClosedEditor
  /\ entriesVersion = [calls |-> 0, reloads |-> 0]
  /\ listings = EmptyBag
  /\ refreshedAt = dir
  /\ removed = {}
  /\ folderHandle = "handle"
  /\ userConfig = readConfig(dir)
  /\ home = IdleHome

InitDash ==
  /\ dir \in DashDirs
  /\ clock = 0
  /\ wcall = [c \in Callers |-> IdleWrite]
  /\ dcall = IdleDelete
  /\ entries = EmptyObj
  /\ selectedTags = <<>>
  /\ isUpdatingTags = FALSE
  /\ tagop = IdleTagOp
  /\ done = [d \in Dates |-> <<>>]
  /\ dlog = <<>>
  /\ lab = <<>>
  /\ editor = ClosedEditor
  /\ entriesVersion = [calls |-> 0, reloads |-> 0]
  /\ listings = EmptyBag
  /\ refreshedAt = dir
  /\ removed = {}
  /\ folderHandle = "handle"
  /\ userConfig = readConfig(dir)
  /\ home = IdleHome

(***************************************************************************)
(* writeEntry(handle, date, entry, htmlBody), one step per suspension      *)
(***************************************************************************)
Last2(s) == IF Len(s) > 2 THEN SubSeq(s, Len(s) - 1, Len(s)) ELSE s

\* variant: an existing metadata document is left as it is
WrittenMetaKeepsExisting(d, date, entry) ==
  IF MetaName(date) \in DOMAIN d /\ d[MetaName(date)].text # <<>>
  THEN d
  ELSE PutText(d, MetaName(date), Stringify(entry))

\* the directory after the metadata writable is closed
WrittenMeta(d, date, entry) == PutText(d, MetaName(date), Stringify(entry))

\* the directory after the body writable is closed
WrittenBody(d, date, htmlBody) == PutText(d, BodyName(date), htmlBody)

IsFolder(d, name) == name \in DOMAIN d /\ d[name].kind = "directory"

WriteBegin(c, date, entry, htmlBody) ==
  /\ wcall[c].pc = "idle"
  /\ wcall' = [wcall EXCEPT ![c] = [pc |-> "metaOpen", date |-> date,
                                    entry |-> entry, body |-> htmlBody]]

\* getFileHandle(`${date}.json`, { create: true }); createWritable()
WriteMetaOpen(c) ==
  /\ wcall[c].pc = "metaOpen"
  /\ ~IsFolder(dir, MetaName(wcall[c].date))
  /\ dir' = CreateIfMissing(dir, MetaName(wcall[c].date))
  /\ wcall' = [wcall EXCEPT ![c].pc = "metaWrite"]
  /\ dlog' = <<>>
  /\ UNCHANGED <<clock, dcall, entries, selectedTags, isUpdatingTags, tagop, done, lab, editor, entriesVersion, listings, refreshedAt, removed, folderHandle, userConfig, home>>

\* metaWritable.write(JSON.stringify(entry, null, 2)); metaWritable.close()
WriteMetaClose(c) ==
  /\ wcall[c].pc = "metaWrite"
  /\ dir' = WrittenMeta(dir, wcall[c].date, wcall[c].entry)
  /\ wcall' = [wcall EXCEPT ![c].pc = "bodyOpen"]
  /\ UNCHANGED <<clock, dcall, entries, selectedTags, isUpdatingTags, tagop,
                 done, dlog, lab, editor, entriesVersion, listings, refreshedAt, removed, folderHandle, userConfig, home>>

\* getFileHandle(`${date}.html`, { create: true }); createWritable()
WriteBodyOpen(c) ==
  /\ wcall[c].pc = "bodyOpen"
  /\ ~IsFolder(dir, BodyName(wcall[c].date))
  /\ dir' = CreateIfMissing(dir, BodyName(wcall[c].date))
  /\ wcall' = [wcall EXCEPT ![c].pc = "bodyWrite"]
  /\ UNCHANGED <<clock, dcall, entries, selectedTags, isUpdatingTags, tagop,
                 done, dlog, lab, editor, entriesVersion, listings, refreshedAt, removed, folderHandle, userConfig, home>>

\* bodyWritable.write(htmlBody); bodyWritable.close(): the call resolves
WriteBodyClose(c) ==
  /\ wcall[c].pc = "bodyWrite"
  /\ dir' = WrittenBody(dir, wcall[c].date, wcall[c].body)
  /\ wcall' = [wcall EXCEPT ![c].pc = "resolved"]
  /\ done' = [done EXCEPT ![wcall[c].date] =
                Last2(Append(@, [entry |-> wcall[c].entry, body |-> wcall[c].body]))]
  /\ UNCHANGED <<clock, dcall, entries, selectedTags, isUpdatingTags, tagop, dlog, lab, editor, entriesVersion, listings, refreshedAt, removed, folderHandle, userConfig, home>>

\* any of the awaited storage calls rejects (StorageError): the call rejects there
WriteThrow(c) ==
  /\ wcall[c].pc \in {"metaOpen", "metaWrite", "bodyOpen", "bodyWrite"}
  /\ wcall' = [wcall EXCEPT ![c].pc = "rejected"]
  /\ done' = [done EXCEPT ![wcall[c].date] = <<>>]
  /\ dlog' = <<>>
  /\ UNCHANGED <<dir, clock, dcall, entries, selectedTags, isUpdatingTags, tagop, lab, editor, entriesVersion, listings, refreshedAt, removed, folderHandle, userConfig, home>>

(***************************************************************************)
(* A caller of the store: the editor's save and delete                     *)
(***************************************************************************)
\* what a save passes to writeEntry: title, tags, first save or not, body
SaveInputs ==
  { [title |-> "t1", tags |-> <<"a">>, isExisting |-> FALSE, body |-> <<"<p>x</p>">>],
    [title |-> "t2", tags |-> <<"c", "a">>, isExisting |-> TRUE, body |-> <<>>] }

\* the JournalEntry literal of a save
SavedEntry(inp, now) ==
  Spread([title |-> inp.title, mood |-> "content", timestamp |-> now,
          tags |-> inp.tags, updatedAt |-> now],
         IF inp.isExisting THEN EmptyObj ELSE [createdAt |-> now])

ClientWrite(date, inp) ==
  /\ Quiet
  /\ clock < MaxClock
  /\ WriteBegin("client", date, SavedEntry(inp, Now), inp.body)
  /\ clock' = clock + 1
  /\ UNCHANGED <<dir, dcall, entries, selectedTags, isUpdatingTags, tagop,
                 done, dlog, lab, editor, entriesVersion, listings, refreshedAt, removed, folderHandle, userConfig, home>>

\* the awaiting caller resumes, in its try or in its catch
ClientWriteReturn ==
  /\ wcall["client"].pc \in {"resolved", "rejected"}
  /\ wcall' = [wcall EXCEPT !["client"] = IdleWrite]
  /\ UNCHANGED <<dir, clock, dcall, entries, selectedTags, isUpdatingTags, tagop,
                 done, dlog, lab, editor, entriesVersion, listings, refreshedAt, removed, folderHandle, userConfig, home>>

(***************************************************************************)
(* deleteEntry(handle, date)                                               *)
(***************************************************************************)
\* what handle.removeEntry(name) can do: remove the file, reject with
\* NotFoundError (missing), or reject for another reason (failed)
RemovalOutcomes(d, name) ==
  IF name \in DOMAIN d THEN {"removed", "failed"} ELSE {"missing", "failed"}

AfterRemoval(d, name, outcome) ==
  IF outcome = "removed" THEN RemoveFile(d, name) ELSE d

\* variant: a removal that rejects ends the call
DeleteNextPcThrows(pc, outcome) ==
  IF outcome # "removed" THEN "rejected"
  ELSE IF pc = "rmMeta" THEN "rmBody" ELSE "resolved"

\* try { await removeEntry } catch { console.error }: whatever the outcome, go on
DeleteNextPc(pc, outcome) == IF pc = "rmMeta" THEN "rmBody" ELSE "resolved"

ClientDelete(date) ==
  /\ Quiet
  /\ clock < MaxClock
  /\ clock' = clock + 1
  /\ dcall' = [pc |-> "rmMeta", date |-> date, meta |-> "none", body |-> "none"]
  /\ UNCHANGED <<dir, wcall, entries, selectedTags, isUpdatingTags, tagop,
                 done, dlog, lab, editor, entriesVersion, listings, refreshedAt, removed, folderHandle, userConfig, home>>

DeleteMeta ==
  /\ dcall.pc = "rmMeta"
  /\ \E outcome \in RemovalOutcomes(dir, MetaName(dcall.date)) :
       /\ dir' = AfterRemoval(dir, MetaName(dcall.date), outcome)
       /\ dcall' = [dcall EXCEPT !.pc = DeleteNextPc("rmMeta", outcome),
                                 !.meta = outcome]
  /\ done' = [done EXCEPT ![dcall.date] = <<>>]
  /\ UNCHANGED <<clock, wcall, entries, selectedTags, isUpdatingTags, tagop, dlog, lab, editor, entriesVersion, listings, refreshedAt, removed, folderHandle, userConfig, home>>

DeleteBody ==
  /\ dcall.pc = "rmBody"
  /\ \E outcome \in RemovalOutcomes(dir, BodyName(dcall.date)) :
       /\ dir' = AfterRemoval(dir, BodyName(dcall.date), outcome)
       /\ dcall' = [dcall EXCEPT !.pc = DeleteNextPc("rmBody", outcome),
                                 !.body = outcome]
       /\ dlog' = Last2(Append(IF dlog # <<>> /\ dlog[Len(dlog)].date # dcall.date
                               THEN <<>> ELSE dlog,
                               [date |-> dcall.date, meta |-> dcall.meta,
                                body |-> outcome]))
  /\ done' = [done EXCEPT ![dcall.date] = <<>>]
  /\ UNCHANGED <<clock, wcall, entries, selectedTags, isUpdatingTags, tagop, lab, editor, entriesVersion, listings, refreshedAt, removed, folderHandle, userConfig, home>>

ClientDeleteReturn ==
  /\ dcall.pc \in {"resolved", "rejected"}
  /\ dcall' = IdleDelete
  /\ UNCHANGED <<dir, clock, wcall, entries, selectedTags, isUpdatingTags, tagop,
                 done, dlog, lab, editor, entriesVersion, listings, refreshedAt, removed, folderHandle, userConfig, home>>

(***************************************************************************)
(* Session state: the index is replaced wholesale by an enumeration        *)
(***************************************************************************)
\* const entriesMap = await listEntries(folderHandle); setEntries(entriesMap)
reloadEntries ==
  /\ Quiet
  /\ clock < MaxClock
  /\ clock' = clock + 1
  /\ entries' = listEntries(dir)
  /\ UNCHANGED <<dir, wcall, dcall, selectedTags, isUpdatingTags, tagop,
                 done, dlog, lab, editor, entriesVersion, listings, refreshedAt, removed, folderHandle, userConfig, home>>

(***************************************************************************)
(* Dashboard tag handlers, started from the TagManagement dialog           *)
(***************************************************************************)
\* the tags the dialog lists (tagStats): every tag some indexed entry carries
ListedTags(ents) ==
  UNION {Elems(ents[id].tags) : id \in {x \in DOMAIN ents : Has(ents[x], "tags")}}

\* what the user may type as a new tag name or merge target
TypedNames == {"", "A", "b", "a b"}

\* newTagName.toLowerCase().trim(), as passed to onRenameTag / onMergeTags
lowerTrimmed(name) == Unspell(trim(toLowerCase(Spell(name))))

\* longest tag selection of a merge
MaxMerge == 2

\* the dialog's selections, ticked in the order the dialog lists the tags
MergeSelections ==
  {sel \in UNION {[1..n -> 1..3] : n \in 2..MaxMerge} :
     \A i \in 1..(Len(sel) - 1) : sel[i] < sel[i + 1]}

MergeTags(sel) == [i \in 1..Len(sel) |-> <<"a", "b", "a b">>[sel[i]]]

\* the mutator call of a handler
Mutated(kind, ents, old, new, merge, now) ==
  CASE kind = "rename" -> renameTagInEntries(ents, old, new, now)
    [] kind = "delete" -> deleteTagFromEntries(ents, old, now)
    [] kind = "merge"  -> mergeTagsInEntries(ents, merge, new, now)

\* the tag list in a date's metadata document, empty when there is none
DiskTags(d, date) ==
  LET meta == FileText(d, MetaName(date))
      metadata == Parse(meta.text)
  IN  IF meta.ok /\ metadata.ok /\ Has(metadata.value, "tags")
      THEN metadata.value.tags
      ELSE <<>>

\* the tags on disk after the handler's loop over updatedEntries went through
\* without a failure
TagsAfterLoop(d, updatedEntries) ==
  [date \in Dates |->
     IF date \in DOMAIN updatedEntries /\ readEntry(d, date).found
     THEN updatedEntries[date].tags
     ELSE DiskTags(d, date)]

\* what the disk holds for a date, tags and updatedAt aside: title, mood,
\* timestamp, weatherContext and createdAt of its metadata document (none
\* when it does not decode) and the text of its body file (absent when there
\* is none)
DiskFrame(d, date) ==
  LET meta == FileText(d, MetaName(date))
      doc == Parse(meta.text)
      body == FileText(d, BodyName(date))
  IN  Spread(IF meta.ok /\ doc.ok
             THEN Pick(doc.value, {"title", "mood", "timestamp", "weatherContext", "createdAt"})
             ELSE EmptyObj,
             IF body.ok THEN [body |-> body.text] ELSE EmptyObj)

\* setIsUpdatingTags(true); const updatedEntries = ...; await import(...)
TagOpBegin(kind, old, new, merge) ==
  /\ Quiet
  /\ clock < MaxClock
  /\ isUpdatingTags' = TRUE
  /\ LET updatedEntries == Mutated(kind, entries, old, new, merge, Now)
         again == /\ tagop.pc = "failed"
                  /\ tagop.kind = kind /\ tagop.old = old
                  /\ tagop.new = new /\ tagop.merge = merge
     IN  tagop' = [pc |-> "loop", kind |-> kind, old |-> old, new |-> new, merge |-> merge,
                   updated |-> updatedEntries,
                   todo |-> DOMAIN updatedEntries,
                   base |-> entries, sel |-> selectedTags,
                   wrote |-> {}, skipped |-> {},
                   tags0 |-> [date \in Dates |-> DiskTags(dir, date)],
                   attempt |-> IF again THEN 2 ELSE 1,
                   prior |-> IF again THEN tagop.wrote ELSE {},
                   expect |-> IF again THEN tagop.expect
                              ELSE TagsAfterLoop(dir, updatedEntries),
                   frame0 |-> [date \in Dates |-> DiskFrame(dir, date)]]
  /\ clock' = clock + 1
  /\ UNCHANGED <<dir, wcall, dcall, entries, selectedTags, done, dlog, lab, editor, entriesVersion, listings, refreshedAt, removed, folderHandle, userConfig, home>>

\* TagManagement.handleRename(oldTag) with newTagName typed, then handleRenameTag
handleRename(oldTag, newTagName) ==
  /\ Quiet
  /\ oldTag \in ListedTags(entries)
  /\ ~(trimmed(newTagName) = "" \/ newTagName = oldTag)
  /\ TagOpBegin("rename", oldTag, lowerTrimmed(newTagName), <<>>)

\* TagManagement.handleDelete(tag), confirmed, then handleDeleteTag
handleDelete(tag) ==
  /\ Quiet
  /\ tag \in ListedTags(entries)
  /\ TagOpBegin("delete", tag, "", <<>>)

\* TagManagement.handleMerge() with the dialog's selection and target, then handleMergeTags
handleMerge(selection, mergeTarget) ==
  /\ Quiet
  /\ Elems(selection) \subseteq ListedTags(entries)
  /\ ~(Len(selection) < 2)
  /\ trimmed(mergeTarget) # ""
  /\ TagOpBegin("merge", "", lowerTrimmed(mergeTarget), selection)

\* variant: the tags are those read back from disk
RewrittenEntryKeepsTags(fullEntry, entry) ==
  Spread(Pick(fullEntry, {"title", "mood", "timestamp", "weatherContext", "tags"}),
         Pick(entry, {"createdAt", "updatedAt"}))

\* the entry literal a handler writes: the record on disk with the mutator's
\* tags, createdAt and updatedAt
RewrittenEntry(fullEntry, entry) ==
  Spread(Pick(fullEntry, {"title", "mood", "timestamp", "weatherContext"}),
         Pick(entry, {"tags", "createdAt", "updatedAt"}))

\* loop head: const fullEntry = await readEntry(...); if (fullEntry) await writeEntry(...)
TagLoopNext ==
  /\ tagop.pc = "loop"
  /\ \E dateStr \in tagop.todo :
       LET fullEntry == readEntry(dir, dateStr)
       IN  IF fullEntry.found
           THEN /\ WriteBegin("dash", dateStr,
                              RewrittenEntry(fullEntry.value, tagop.updated[dateStr]),
                              fullEntry.value.body)
                /\ tagop' = [tagop EXCEPT !.pc = "writing", !.todo = @ \ {dateStr}]
           ELSE /\ tagop' = [tagop EXCEPT !.todo = @ \ {dateStr},
                                          !.skipped = @ \cup {dateStr}]
                /\ UNCHANGED wcall
  /\ UNCHANGED <<dir, clock, dcall, entries, selectedTags, isUpdatingTags,
                 done, dlog, lab, editor, entriesVersion, listings, refreshedAt, removed, folderHandle, userConfig, home>>

\* the awaited writeEntry resolved: next iteration
TagLoopWritten ==
  /\ tagop.pc = "writing"
  /\ wcall["dash"].pc = "resolved"
  /\ tagop' = [tagop EXCEPT !.pc = "loop", !.wrote = @ \cup {wcall["dash"].date}]
  /\ wcall' = [wcall EXCEPT !["dash"] = IdleWrite]
  /\ UNCHANGED <<dir, clock, dcall, entries, selectedTags, isUpdatingTags,
                 done, dlog, lab, editor, entriesVersion, listings, refreshedAt, removed, folderHandle, userConfig, home>>

\* variant: the rejection is logged and the loop goes on
TagLoopFailedContinues ==
  /\ tagop.pc = "writing"
  /\ wcall["dash"].pc = "rejected"
  /\ tagop' = [tagop EXCEPT !.pc = "loop"]
  /\ wcall' = [wcall EXCEPT !["dash"] = IdleWrite]
  /\ isUpdatingTags' = FALSE
  /\ UNCHANGED <<dir, clock, dcall, entries, selectedTags, done, dlog, lab, editor, entriesVersion, listings, refreshedAt, removed, folderHandle, userConfig, home>>

\* the awaited writeEntry rejected: catch logs and rethrows, finally clears the flag
TagLoopFailed ==
  /\ tagop.pc = "writing"
  /\ wcall["dash"].pc = "rejected"
  /\ tagop' = [tagop EXCEPT !.pc = "failed"]
  /\ wcall' = [wcall EXCEPT !["dash"] = IdleWrite]
  /\ isUpdatingTags' = FALSE
  /\ UNCHANGED <<dir, clock, dcall, entries, selectedTags, done, dlog, lab, editor, entriesVersion, listings, refreshedAt, removed, folderHandle, userConfig, home>>

\* the selection after a handler that ran to its end
NewSelection(op, prev) ==
  CASE op.kind = "rename" ->
         IF includes(op.sel, op.old)
         THEN [i \in 1..Len(prev) |-> IF prev[i] = op.old THEN op.new ELSE prev[i]]
         ELSE prev
    [] op.kind = "delete" -> filterSeq(prev, Elems(prev) \ {op.old})
    [] op.kind = "merge" ->
         LET filtered == filterSeq(prev, Elems(prev) \ Elems(op.merge))
         IN  IF includes(filtered, op.new) THEN filtered ELSE Append(filtered, op.new)

\* after the loop: setEntries(new Map(entries) with the updated entries set);
\* setSelectedTags(...); finally setIsUpdatingTags(false)
TagOpFinish ==
  /\ tagop.pc = "loop"
  /\ tagop.todo = {}
  /\ entries' = Spread(tagop.base, tagop.updated)
  /\ selectedTags' = NewSelection(tagop, selectedTags)
  /\ isUpdatingTags' = FALSE
  /\ tagop' = [tagop EXCEPT !.pc = "done"]
  /\ UNCHANGED <<dir, clock, wcall, dcall, done, dlog, lab, editor, entriesVersion, listings, refreshedAt, removed, folderHandle, userConfig, home>>

\* handleTagClick(tag): toggle a tag of the cloud in the selection
handleTagClick(tag) ==
  /\ Quiet
  /\ clock < MaxClock
  /\ clock' = clock + 1
  /\ tag \in ListedTags(entries)
  /\ selectedTags' = IF includes(selectedTags, tag)
                     THEN filterSeq(selectedTags, Elems(selectedTags) \ {tag})
                     ELSE Append(selectedTags, tag)
  /\ UNCHANGED <<dir, wcall, dcall, entries, isUpdatingTags, tagop,
                 done, dlog, lab, editor, entriesVersion, listings, refreshedAt, removed, folderHandle, userConfig, home>>

(***************************************************************************)
(* Spec: the entry store under one caller at a time                        *)
(***************************************************************************)
WriteSteps ==
  \/ \E c \in Callers : WriteMetaOpen(c)
  \/ \E c \in Callers : WriteMetaClose(c)
  \/ \E c \in Callers : WriteBodyOpen(c)
  \/ \E c \in Callers : WriteBodyClose(c)
  \/ \E c \in Callers : WriteThrow(c)

Next ==
  \/ \E date \in Dates, inp \in SaveInputs : ClientWrite(date, inp)
  \/ WriteSteps
  \/ ClientWriteReturn
  \/ \E date \in Dates : ClientDelete(date)
  \/ DeleteMeta
  \/ DeleteBody
  \/ ClientDeleteReturn
  \/ reloadEntries

Spec == Init /\ [][Next]_vars

(***************************************************************************)
(* SpecOverlap: the editor's saves, each awaiting its own writeEntry       *)
(***************************************************************************)
\* autoSave / handleManualSave: await writeEntry(folderHandle, dateStr, entry, body),
\* started while an earlier save may still be awaiting its own
OverlapWrite(c, date, inp) ==
  /\ clock < MaxClock
  /\ WriteBegin(c, date, SavedEntry(inp, Now), inp.body)
  /\ clock' = clock + 1
  /\ UNCHANGED <<dir, dcall, entries, selectedTags, isUpdatingTags, tagop,
                 done, dlog, lab, editor, entriesVersion, listings, refreshedAt, removed, folderHandle, userConfig, home>>

\* the awaiting save resumes, in its try or in its catch
OverlapReturn(c) ==
  /\ wcall[c].pc \in {"resolved", "rejected"}
  /\ wcall' = [wcall EXCEPT ![c] = IdleWrite]
  /\ UNCHANGED <<dir, clock, dcall, entries, selectedTags, isUpdatingTags, tagop,
                 done, dlog, lab, editor, entriesVersion, listings, refreshedAt, removed, folderHandle, userConfig, home>>

NextOverlap ==
  \/ \E c \in EditorCallers, date \in Dates, inp \in SaveInputs : OverlapWrite(c, date, inp)
  \/ WriteSteps
  \/ \E c \in EditorCallers : OverlapReturn(c)

SpecOverlap == Init /\ [][NextOverlap]_vars

(***************************************************************************)
(* SpecDash: the dashboard's tag operations over the picked directory      *)
(***************************************************************************)
NextDash ==
  \/ reloadEntries
  \/ \E oldTag \in TagStrings, newTagName \in TypedNames : handleRename(oldTag, newTagName)
  \/ \E tag \in TagStrings : handleDelete(tag)
  \/ \E selection \in MergeSelections, mergeTarget \in TypedNames :
        handleMerge(MergeTags(selection), mergeTarget)
  \/ TagLoopNext
  \/ WriteSteps
  \/ TagLoopWritten
  \/ TagLoopFailed
  \/ TagOpFinish
  \/ \E tag \in TagStrings : handleTagClick(tag)

SpecDash == InitDash /\ [][NextDash]_vars

(***************************************************************************)
(* SpecTags: the tag mutator applied to in-memory entry maps, each result  *)
(* merged back into the map as the handlers do (newEntries.set)            *)
(***************************************************************************)
\* number of mutator applications of a run
MaxLabOps == 2

\* tag lists an indexed entry may carry (normalized, no duplicate)
LabTagLists ==
  {<<>>, <<"a">>, <<"b">>, <<"c">>, <<"a", "b">>, <<"a", "c">>, <<"b", "c">>, <<"a", "d">>}

LabEntry(title, tagList) ==
  [title |-> title, mood |-> "content", timestamp |-> "T0", tags |-> tagList,
   createdAt |-> "T0", updatedAt |-> "T0"]

\* entry maps: every date indexed, with a tag list or without the tags property
LabMaps ==
  {[d \in Dates |-> IF hasTags[d] THEN LabEntry(d, tl[d])
                    ELSE Without(LabEntry(d, <<>>), {"tags"})] :
     tl \in [Dates -> LabTagLists], hasTags \in [Dates -> BOOLEAN]}

\* tag names as a caller may pass them
RawTags == {"a", "A ", "b"}

RawMerges == {<<"a">>, <<"a", "b">>, <<"A ", "c">>, <<"b", "a">>}

InitTags ==
  /\ dir = EmptyDir
  /\ clock = 0
  /\ wcall = [c \in Callers |-> IdleWrite]
  /\ dcall = IdleDelete
  /\ entries \in LabMaps
  /\ selectedTags = <<>>
  /\ isUpdatingTags = FALSE
  /\ tagop = IdleTagOp
  /\ done = [d \in Dates |-> <<>>]
  /\ dlog = <<>>
  /\ lab = <<>>
  /\ editor = ClosedEditor
  /\ entriesVersion = [calls |-> 0, reloads |-> 0]
  /\ listings = EmptyBag
  /\ refreshedAt = dir
  /\ removed = {}
  /\ folderHandle = "handle"
  /\ userConfig = readConfig(dir)
  /\ home = IdleHome

Applied(op, a, b, tags, result) ==
  /\ Len(lab) < MaxLabOps
  /\ clock < MaxClock
  /\ clock' = clock + 1
  /\ entries' = Spread(entries, result)
  /\ lab' = Append(lab, [op |-> op, a |-> a, b |-> b, tags |-> tags,
                         before |-> entries, result |-> result,
                         after |-> Spread(entries, result)])
  /\ UNCHANGED <<dir, wcall, dcall, selectedTags, isUpdatingTags, tagop, done, dlog, editor, entriesVersion, listings, refreshedAt, removed, folderHandle, userConfig, home>>

ApplyRename(oldTag, newTag) ==
  Applied("rename", oldTag, newTag, <<>>, renameTagInEntries(entries, oldTag, newTag, Now))

ApplyDelete(tag) ==
  Applied("delete", tag, "", <<>>, deleteTagFromEntries(entries, tag, Now))

ApplyMerge(tagsToMerge, targetTag) ==
  Applied("merge", "", targetTag, tagsToMerge,
          mergeTagsInEntries(entries, tagsToMerge, targetTag, Now))

NextTags ==
  \/ \E oldTag \in RawTags, newTag \in RawTags : ApplyRename(oldTag, newTag)
  \/ \E tag \in RawTags : ApplyDelete(tag)
  \/ \E tagsToMerge \in RawMerges, targetTag \in RawTags : ApplyMerge(tagsToMerge, targetTag)

SpecTags == InitTags /\ [][NextTags]_vars

(***************************************************************************)
(* SpecFilter: the dashboard's tag filter over in-memory entry maps, next  *)
(* to renames                                                              *)
(***************************************************************************)
\* tag selections handed to the filter
FilterTags == {<<>>, <<"a">>, <<"A ">>, <<"b">>, <<"A ", "b">>}

ApplyFilter(tags, operator) ==
  Applied("filter", operator, "", tags, filterEntriesByTags(entries, tags, operator))

NextFilter ==
  \/ \E oldTag \in RawTags, newTag \in RawTags : ApplyRename(oldTag, newTag)
  \/ \E tags \in FilterTags, operator \in {"AND", "OR"} : ApplyFilter(tags, operator)

SpecFilter == InitTags /\ [][NextFilter]_vars

(***************************************************************************)
(* SpecEdit: the editor page of one date: edits of title and mood, the     *)
(* debounced auto-save, the Save button, leaving the page, the index       *)
(* reload a save asks for, and on the dashboard the deletion of a tag.     *)
(* Tag edits are SpecInput's.                                              *)
(***************************************************************************)
EditDates == {"d1"}

\* number of autoSave calls of a run that reach writeEntry
MaxSaves == 2

\* what the user types or picks
EditTitles == {"", "t1"}

\* the tags whose delete button the user clicks on the dashboard
DashTags == {"a"}

Moods == {"happy"}

\* a fresh directory, or one that holds a complete entry for the date
EditDirs ==
  {EmptyDir} \cup
  {DirOf(st, TRUE, FALSE) :
     st \in {f \in [Dates -> DateStates] :
               /\ f["d1"].hasBody /\ RequiredKeys \subseteq DOMAIN Parse(f["d1"].meta).value
               /\ ~f["d2"].hasMeta}}

\* the session after the folder was picked and its entries were listed
InitEdit ==
  /\ dir \in EditDirs
  /\ clock = 0
  /\ wcall = [c \in Callers |-> IdleWrite]
  /\ dcall = IdleDelete
  /\ entries = listEntries(dir)
  /\ selectedTags = <<>>
  /\ isUpdatingTags = FALSE
  /\ tagop = IdleTagOp
  /\ done = [d \in Dates |-> <<>>]
  /\ dlog = <<>>
  /\ lab = <<>>
  /\ editor = ClosedEditor
  /\ entriesVersion = [calls |-> 0, reloads |-> 0]
  /\ listings = EmptyBag
  /\ refreshedAt = dir
  /\ removed = {}
  /\ folderHandle = "handle"
  /\ userConfig = readConfig(dir)
  /\ home = IdleHome

EditFrame ==
  UNCHANGED <<dir, clock, wcall, dcall, entries, selectedTags, isUpdatingTags,
              tagop, done, dlog, lab, entriesVersion, listings, refreshedAt, removed, folderHandle, userConfig, home>>

\* the page is mounted for the date: loadEntry.  The user comes back to the
\* page once the saves of the page they left have returned; the dashboard's
\* "Updating tags..." overlay covers its links while a tag operation runs.
\* loadEntry after its readEntry returned r: the state setters, and
\* setIsLoading(false)
Loaded(ed, r) ==
  LET entry == r.value
      shown == [ed EXCEPT !.open = TRUE, !.isLoading = FALSE]
      field(k, dflt) == IF Has(entry, k) THEN entry[k] ELSE dflt
  IN  IF r.found
      THEN [shown EXCEPT
              !.title = field("title", ""),
              !.body = entry.body,
              !.mood = field("mood", ""),
              !.tags = field("tags", <<>>),
              !.initialTitle = field("title", ""),
              !.initialBody = entry.body,
              !.initialMood = field("mood", ""),
              !.initialTags = field("tags", <<>>),
              !.isExisting = TRUE,
              !.isPreviewMode = TRUE,
              !.weatherContext = field("weatherContext", ed.weatherContext)]
      ELSE shown

OpenEditor(date) ==
  /\ ~editor.open
  /\ ~isUpdatingTags
  /\ \A c \in EditorCallers : ~editor.saves[c].active
  /\ editor' = Loaded([BlankEditor(date) EXCEPT !.saves = editor.saves],
                      readEntry(dir, date))
  /\ EditFrame

\* a state setter called by the form, and the debounce effect of the render
\* that follows
Edited(ed) ==
  /\ editor.open /\ ~editor.isPreviewMode
  /\ ed # editor
  /\ editor' = debounceEffect([ed EXCEPT !.quiet = "edited"])
  /\ EditFrame

\* onChange={(e) => setTitle(e.target.value)}
setTitle(title) == Edited([editor EXCEPT !.title = title])

\* <MoodSelector onChange={setMood}>
setMood(mood) == Edited([editor EXCEPT !.mood = mood])

\* the Edit button of the preview: setIsPreviewMode(false)
EnterEdit ==
  /\ editor.open /\ editor.isPreviewMode
  /\ editor' = debounceEffect([editor EXCEPT !.isPreviewMode = FALSE])
  /\ EditFrame

\* the Preview button, shown for an existing entry: setIsPreviewMode(true)
EnterPreview ==
  /\ editor.open /\ ~editor.isPreviewMode /\ editor.isExisting
  /\ editor' = debounceEffect([editor EXCEPT !.isPreviewMode = TRUE])
  /\ EditFrame

\* the debounce delay passes without an edit: the pending timer is due
QuietPeriodElapses ==
  /\ editor.open
  /\ editor.quiet = "edited" \/ \E i \in 1..Len(editor.timers) : ~editor.timers[i].due
  /\ editor' = [editor EXCEPT
                  !.quiet = "elapsed",
                  !.timers = [i \in 1..Len(@) |-> [@[i] EXCEPT !.due = TRUE]]]
  /\ EditFrame

\* the JournalEntry literal of autoSave
JournalEntryOf(snap, now) ==
  Spread(Spread([title |-> trimmed(snap.title), mood |-> snap.mood,
                 timestamp |-> now, tags |-> snap.tags, updatedAt |-> now],
                IF snap.weatherContext = "" THEN EmptyObj
                ELSE [weatherContext |-> snap.weatherContext]),
         IF snap.isExisting THEN EmptyObj ELSE [createdAt |-> now])

FreeCaller(ed) ==
  IF wcall["client"].pc = "idle" /\ ~ed.saves["client"].active THEN "client" ELSE "client2"

\* autoSave() of the render whose values snap holds, up to its await
autoSave(ed, snap, origin) ==
  IF trimmed(snap.title) = "" \/ snap.mood = ""
  THEN /\ editor' = ed
       /\ UNCHANGED <<wcall, clock, listings, refreshedAt, removed, folderHandle, userConfig, home>>
  ELSE LET c == FreeCaller(ed)
       IN  /\ ~ed.saves[c].active
           /\ clock < MaxSaves
           /\ clock' = clock + 1
           /\ WriteBegin(c, ed.date, JournalEntryOf(snap, Now), snap.body)
           /\ editor' = [ed EXCEPT
                           !.saveStatus = "saving",
                           !.saves[c] = [active |-> TRUE, origin |-> origin,
                                         title |-> snap.title, body |-> snap.body,
                                         mood |-> snap.mood, tags |-> snap.tags,
                                         mounted |-> TRUE,
                                         afterQuiet |-> origin = "timer" /\ ed.quiet = "elapsed"]]

\* a due timer runs its callback
TimerFires ==
  /\ editor.open
  /\ \E i \in 1..Len(editor.timers) :
       /\ editor.timers[i].due
       /\ autoSave([editor EXCEPT !.timers = SubSeq(@, 1, i - 1) \o SubSeq(@, i + 1, Len(@))],
                   editor.timers[i], "timer")
  /\ UNCHANGED <<dir, dcall, entries, selectedTags, isUpdatingTags, tagop, done,
                 dlog, lab, entriesVersion, listings, refreshedAt, removed, folderHandle, userConfig, home>>

\* handleManualSave, up to the await in autoSave; the navigation it schedules
\* afterwards is LeaveEditor
handleManualSave ==
  /\ editor.open /\ ~editor.isPreviewMode
  /\ editor.saveStatus # "saving"
  /\ trimmed(editor.title) # "" /\ editor.mood # ""
  /\ autoSave(editor, NewTimer(editor), "manual")
  /\ UNCHANGED <<dir, dcall, entries, selectedTags, isUpdatingTags, tagop, done,
                 dlog, lab, entriesVersion, listings, refreshedAt, removed, folderHandle, userConfig, home>>

\* variant: the catch block asks for a reload as the try block does
SaveRejectedRefreshes(c) ==
  /\ wcall[c].pc = "rejected" /\ editor.saves[c].active
  /\ wcall' = [wcall EXCEPT ![c] = IdleWrite]
  /\ editor' = IF editor.saves[c].mounted
                THEN [editor EXCEPT !.saveStatus = "error",
                                    !.saves[c] = NoSave]
                ELSE [editor EXCEPT !.saves[c] = NoSave]
  /\ entriesVersion' = [entriesVersion EXCEPT !.calls = @ + 1]
  /\ UNCHANGED <<dir, clock, dcall, entries, selectedTags, isUpdatingTags, tagop,
                 done, dlog, lab, listings, refreshedAt, removed, folderHandle, userConfig, home>>

\* autoSave after writeEntry resolved: the saved values become the initial
\* ones, refreshEntries(); the state of a page that was left is not touched
SaveResolved(c) ==
  /\ wcall[c].pc = "resolved" /\ editor.saves[c].active
  /\ wcall' = [wcall EXCEPT ![c] = IdleWrite]
  /\ editor' = IF editor.saves[c].mounted
                THEN debounceEffect(
                       [editor EXCEPT !.initialTitle = editor.saves[c].title,
                                      !.initialBody = editor.saves[c].body,
                                      !.initialMood = editor.saves[c].mood,
                                      !.initialTags = editor.saves[c].tags,
                                      !.saveStatus = "saved",
                                      !.saves[c] = NoSave])
                ELSE [editor EXCEPT !.saves[c] = NoSave]
  /\ entriesVersion' = [entriesVersion EXCEPT !.calls = @ + 1]
  /\ UNCHANGED <<dir, clock, dcall, entries, selectedTags, isUpdatingTags, tagop,
                 done, dlog, lab, listings, refreshedAt, removed, folderHandle, userConfig, home>>

\* autoSave's catch block after writeEntry rejected
SaveRejected(c) ==
  /\ wcall[c].pc = "rejected" /\ editor.saves[c].active
  /\ wcall' = [wcall EXCEPT ![c] = IdleWrite]
  /\ editor' = IF editor.saves[c].mounted
                THEN [editor EXCEPT !.saveStatus = "error",
                                    !.saves[c] = NoSave]
                ELSE [editor EXCEPT !.saves[c] = NoSave]
  /\ UNCHANGED <<dir, clock, dcall, entries, selectedTags, isUpdatingTags, tagop,
                 done, dlog, lab, entriesVersion, listings, refreshedAt, removed, folderHandle, userConfig, home>>

\* setTimeout(() => setSaveStatus('idle'), ...)
StatusTimeout ==
  /\ editor.open /\ editor.saveStatus \in {"saved", "error"}
  /\ editor' = [editor EXCEPT !.saveStatus = "idle"]
  /\ EditFrame

\* router.push away from the page: the effect's cleanup clears the timer
LeaveEditor ==
  /\ editor.open
  /\ editor' = [ClosedEditor EXCEPT
                  !.saves = [c \in EditorCallers |->
                               [editor.saves[c] EXCEPT !.mounted = FALSE]]]
  /\ EditFrame

\* FolderProvider's effect on entriesVersion: the index is listed anew; the
\* provider renders, and with it the page and its debounce effect
ReloadEffect ==
  /\ entriesVersion.reloads < entriesVersion.calls
  /\ entries' = listEntries(dir)
  /\ entriesVersion' = [entriesVersion EXCEPT !.reloads = entriesVersion.calls]
  /\ editor' = IF editor.open THEN debounceEffect(editor) ELSE editor
  /\ UNCHANGED <<dir, clock, wcall, dcall, selectedTags, isUpdatingTags, tagop,
                 done, dlog, lab, listings, refreshedAt, removed, folderHandle, userConfig, home>>

NextEdit ==
  \/ \E date \in EditDates : OpenEditor(date)
  \/ \E title \in EditTitles : setTitle(title)
  \/ \E mood \in Moods : setMood(mood)
  \/ EnterEdit
  \/ EnterPreview
  \/ QuietPeriodElapses
  \/ TimerFires
  \/ handleManualSave
  \/ WriteSteps
  \/ \E c \in EditorCallers : SaveResolved(c)
  \/ \E c \in EditorCallers : SaveRejected(c)
  \/ StatusTimeout
  \/ LeaveEditor
  \/ ReloadEffect
  \/ \E tag \in DashTags : ~editor.open /\ handleDelete(tag)
  \/ TagLoopNext
  \/ TagLoopWritten
  \/ TagLoopFailed
  \/ TagOpFinish

SpecEdit == InitEdit /\ [][NextEdit]_vars

(***************************************************************************)
(* SpecLive: the editor page kept open: edits and the debounced auto-save, *)
(* with every write succeeding.  Timers run, file operations complete and  *)
(* promise continuations are scheduled: weak fairness of those steps.      *)
(***************************************************************************)
\* writeEntry's steps when no file operation fails
WriteSucceeds ==
  \/ \E c \in EditorCallers : WriteMetaOpen(c)
  \/ \E c \in EditorCallers : WriteMetaClose(c)
  \/ \E c \in EditorCallers : WriteBodyOpen(c)
  \/ \E c \in EditorCallers : WriteBodyClose(c)

\* an onChange of the form
EditStep ==
  \/ \E title \in EditTitles : setTitle(title)
  \/ \E mood \in Moods : setMood(mood)

NextLive ==
  \/ \E date \in EditDates : OpenEditor(date)
  \/ EnterEdit
  \/ EditStep
  \/ QuietPeriodElapses
  \/ TimerFires
  \/ WriteSucceeds
  \/ \E c \in EditorCallers : SaveResolved(c)
  \/ StatusTimeout
  \/ ReloadEffect

LiveFairness ==
  /\ WF_vars(QuietPeriodElapses)
  /\ WF_vars(TimerFires)
  /\ WF_vars(WriteSucceeds)
  /\ \A c \in EditorCallers : WF_vars(SaveResolved(c))
  /\ WF_vars(StatusTimeout)
  /\ WF_vars(ReloadEffect)

SpecLive == InitEdit /\ [][NextLive]_vars /\ LiveFairness

(***************************************************************************)
(* SpecWeather: the editor page with the two effects of its first render   *)
(* side by side: loadEntry's readEntry and fetchWeather's                  *)
(* getWeatherContext return in either order                                *)
(***************************************************************************)
\* what getWeatherContext resolves with: a WeatherContext made now
FetchedWeather == "w1"

\* each date has no entry or a complete one
WeatherDirs ==
  {DirOf(st, TRUE, FALSE) :
     st \in {f \in [Dates -> DateStates] :
               \A date \in Dates :
                 \/ ~f[date].hasMeta /\ ~f[date].hasBody
                 \/ /\ f[date].hasBody
                    /\ RequiredKeys \subseteq DOMAIN Parse(f[date].meta).value}}

InitWeather ==
  /\ dir \in WeatherDirs
  /\ clock = 0
  /\ wcall = [c \in Callers |-> IdleWrite]
  /\ dcall = IdleDelete
  /\ entries = listEntries(dir)
  /\ selectedTags = <<>>
  /\ isUpdatingTags = FALSE
  /\ tagop = IdleTagOp
  /\ done = [d \in Dates |-> <<>>]
  /\ dlog = <<>>
  /\ lab = <<>>
  /\ editor = ClosedEditor
  /\ entriesVersion = [calls |-> 0, reloads |-> 0]
  /\ listings = EmptyBag
  /\ refreshedAt = dir
  /\ removed = {}
  /\ folderHandle = "handle"
  /\ userConfig = readConfig(dir)
  /\ home = IdleHome

\* the page is mounted for the date: the first render shows the loading
\* screen, its effects have started loadEntry and fetchWeather
MountEditor(date) ==
  /\ ~editor.open /\ ~editor.isLoading
  /\ \A c \in EditorCallers : ~editor.saves[c].active
  /\ editor' = [BlankEditor(date) EXCEPT !.open = FALSE, !.isLoading = TRUE,
                                         !.saves = editor.saves]
  /\ EditFrame

\* loadEntry's await readEntry(folderHandle, dateStr) returns
EntryLoaded ==
  /\ editor.isLoading
  /\ editor' = Loaded(editor, readEntry(dir, editor.date))
  /\ EditFrame

\* fetchWeather's await getWeatherContext() returns: setWeatherContext(weather)
\* and the debounce effect of the render that follows (autoSave changed), or
\* the catch block
WeatherFetched(outcome) ==
  /\ editor.open \/ editor.isLoading
  /\ editor.fetch = "running"
  /\ editor' =
       IF outcome = "resolved"
       THEN LET ed == [editor EXCEPT !.weatherContext = FetchedWeather, !.fetch = "idle"]
            IN  IF editor.open THEN debounceEffect(ed) ELSE ed
       ELSE [editor EXCEPT !.fetch = "idle"]
  /\ EditFrame

NextWeather ==
  \/ \E date \in Dates : MountEditor(date)
  \/ EntryLoaded
  \/ \E outcome \in {"resolved", "rejected"} : WeatherFetched(outcome)
  \/ \E title \in EditTitles : setTitle(title)
  \/ \E mood \in Moods : setMood(mood)
  \/ EnterEdit
  \/ QuietPeriodElapses
  \/ TimerFires
  \/ handleManualSave
  \/ WriteSteps
  \/ \E c \in EditorCallers : SaveResolved(c)
  \/ \E c \in EditorCallers : SaveRejected(c)
  \/ LeaveEditor
  \/ ReloadEffect

SpecWeather == InitWeather /\ [][NextWeather]_vars

(***************************************************************************)
(* SpecRefresh: saves and the deletion of an entry on the editor page, and *)
(* FolderProvider's effect, whose listEntries calls run side by side       *)
(***************************************************************************)
\* the metadata file of the date was removed by a deleteEntry call, returned
\* or still running
MetaRemoved(date) ==
  \/ date \in removed
  \/ dcall.pc # "idle" /\ dcall.date = date /\ dcall.meta = "removed"

\* autoSave of the open page, up to its await
PageSave(inp) ==
  /\ editor.open /\ ~editor.isDeleting
  /\ ClientWrite(editor.date, inp)

\* autoSave after its await: refreshEntries() when writeEntry resolved
PageSaveReturn ==
  /\ wcall["client"].pc \in {"resolved", "rejected"}
  /\ wcall' = [wcall EXCEPT !["client"] = IdleWrite]
  /\ IF wcall["client"].pc = "resolved"
     THEN /\ entriesVersion' = [entriesVersion EXCEPT !.calls = @ + 1]
          /\ refreshedAt' = dir
     ELSE UNCHANGED <<entriesVersion, refreshedAt>>
  /\ UNCHANGED <<dir, clock, dcall, entries, selectedTags, isUpdatingTags, tagop,
                 done, dlog, lab, editor, listings, removed, folderHandle, userConfig, home>>

\* the editor's handleDelete, confirmed in the dialog, up to its await:
\* setIsDeleting(true); await deleteEntry(folderHandle, dateStr)
PageDelete ==
  /\ editor.open /\ editor.isExisting /\ ~editor.isDeleting
  /\ Quiet
  /\ clock < MaxClock
  /\ clock' = clock + 1
  /\ dcall' = [pc |-> "rmMeta", date |-> editor.date, meta |-> "none", body |-> "none"]
  /\ editor' = [editor EXCEPT !.isDeleting = TRUE]
  /\ UNCHANGED <<dir, wcall, entries, selectedTags, isUpdatingTags, tagop,
                 done, dlog, lab, entriesVersion, listings, refreshedAt, removed, folderHandle, userConfig, home>>

\* variant: the date is taken out of the index as soon as deleteEntry returns
PageDeleteReturnOptimistic ==
  /\ dcall.pc \in {"resolved", "rejected"}
  /\ dcall' = IdleDelete
  /\ removed' = removed \cup (IF dcall.meta = "removed" THEN {dcall.date} ELSE {})
  /\ entries' = [d \in DOMAIN entries \ {dcall.date} |-> entries[d]]
  /\ entriesVersion' = [entriesVersion EXCEPT !.calls = @ + 1]
  /\ refreshedAt' = dir
  /\ editor' = [ClosedEditor EXCEPT !.saves = editor.saves]
  /\ UNCHANGED <<dir, clock, wcall, selectedTags, isUpdatingTags, tagop,
                 done, dlog, lab, listings, folderHandle, userConfig, home>>

\* handleDelete after its await.  try: refreshEntries(); router.push('/dashboard').
\* catch: setError('Failed to delete entry'); setIsDeleting(false);
\* setShowDeleteConfirm(false)
PageDeleteReturn ==
  /\ dcall.pc \in {"resolved", "rejected"}
  /\ dcall' = IdleDelete
  /\ removed' = removed \cup (IF dcall.meta = "removed" THEN {dcall.date} ELSE {})
  /\ IF dcall.pc = "resolved"
     THEN /\ entriesVersion' = [entriesVersion EXCEPT !.calls = @ + 1]
          /\ refreshedAt' = dir
          /\ editor' = [ClosedEditor EXCEPT !.saves = editor.saves]
     ELSE /\ editor' = [editor EXCEPT !.error = "Failed to delete entry",
                                      !.isDeleting = FALSE]
          /\ UNCHANGED <<entriesVersion, refreshedAt>>
  /\ UNCHANGED <<dir, clock, wcall, entries, selectedTags, isUpdatingTags, tagop,
                 done, dlog, lab, listings, folderHandle, userConfig, home>>

\* FolderProvider's effect on entriesVersion, up to its await: listEntries
\* reads the directory.  History: removed0 (the dates whose metadata file had
\* been removed by then)
ReloadStart ==
  /\ entriesVersion.reloads < entriesVersion.calls
  /\ listings' = listings (+) SetToBag({[result |-> listEntries(dir),
                                         removed0 |-> {d \in Dates : MetaRemoved(d)}]})
  /\ entriesVersion' = [entriesVersion EXCEPT !.reloads = entriesVersion.calls]
  /\ UNCHANGED <<dir, clock, wcall, dcall, entries, selectedTags, isUpdatingTags,
                 tagop, done, dlog, lab, editor, refreshedAt, removed, folderHandle, userConfig, home>>

\* one of the effect's listEntries calls returns: setEntries(entriesMap)
ReloadFinish ==
  /\ \E call \in BagToSet(listings) :
       /\ entries' = call.result
       /\ listings' = listings (-) SetToBag({call})
  /\ UNCHANGED <<dir, clock, wcall, dcall, selectedTags, isUpdatingTags, tagop,
                 done, dlog, lab, editor, entriesVersion, refreshedAt, removed, folderHandle, userConfig, home>>

NextRefresh ==
  \/ \E date \in EditDates : OpenEditor(date)
  \/ \E inp \in SaveInputs : PageSave(inp)
  \/ WriteSteps
  \/ PageSaveReturn
  \/ PageDelete
  \/ DeleteMeta
  \/ DeleteBody
  \/ PageDeleteReturn
  \/ ~editor.isDeleting /\ LeaveEditor
  \/ ReloadStart
  \/ ReloadFinish

SpecRefresh == InitEdit /\ [][NextRefresh]_vars

(***************************************************************************)
(* SpecHome: the Home page's folder selection, profile set-up and unlock,  *)
(* and the dashboard's Change Folder                                       *)
(***************************************************************************)
\* the directories the user may pick: without a profile, with one, with
\* one and an entry, with a config.json that is not JSON
HomeDirs ==
  { EmptyDir,
    DirOf([d \in Dates |-> [meta |-> <<>>, body |-> <<>>, hasMeta |-> FALSE, hasBody |-> FALSE]],
          TRUE, FALSE),
    DirOf([d \in Dates |-> IF d = "d1" THEN BodylessState
                           ELSE [meta |-> <<>>, body |-> <<>>, hasMeta |-> FALSE, hasBody |-> FALSE]],
          TRUE, FALSE),
    PutText(EmptyDir, ConfigName, <<"{", "name">>) }

\* what the user may type as their name
TypedUserNames == {" ", "A "}

\* a fresh session, or one whose stored handle was restored and awaits the
\* user's permission (queryPermission gave 'prompt')
InitHome ==
  /\ \/ /\ dir = EmptyDir
        /\ folderHandle = "null"
        /\ home = IdleHome
     \/ /\ dir \in HomeDirs
        /\ folderHandle = "handle"
        /\ home = [IdleHome EXCEPT !.needsUnlock = TRUE]
  /\ userConfig = NoConfig
  /\ clock = 0
  /\ wcall = [c \in Callers |-> IdleWrite]
  /\ dcall = IdleDelete
  /\ entries = EmptyObj
  /\ selectedTags = <<>>
  /\ isUpdatingTags = FALSE
  /\ tagop = IdleTagOp
  /\ done = [d \in Dates |-> <<>>]
  /\ dlog = <<>>
  /\ lab = <<>>
  /\ editor = ClosedEditor
  /\ entriesVersion = [calls |-> 0, reloads |-> 0]
  /\ listings = EmptyBag
  /\ refreshedAt = dir
  /\ removed = {}

HomeFrame ==
  UNCHANGED <<clock, wcall, dcall, selectedTags, isUpdatingTags, tagop, done, dlog,
              lab, editor, entriesVersion, listings, refreshedAt, removed>>

\* the top-level readiness of a session state
Readiness(handle, config, page) ==
  IF handle = "null" THEN "Uninitialized"
  ELSE IF config.found THEN "Ready"
  ELSE IF page.needsUnlock THEN "PermissionNeeded"
  ELSE "AwaitingProfile"

\* handleSelectFolder up to await openJournalFolder(): the picker opens
handleSelectFolder ==
  /\ folderHandle = "null" /\ ~home.needsUnlock
  /\ home.select = "idle"
  /\ home' = [home EXCEPT !.select = "picking",
                          !.pickedFrom = Readiness(folderHandle, userConfig, home)]
  /\ UNCHANGED <<dir, entries, folderHandle, userConfig>>
  /\ HomeFrame

\* showDirectoryPicker rejects (the user cancels): openJournalFolder returns null
PickerCancelled ==
  /\ home.select = "picking"
  /\ home' = [home EXCEPT !.select = "idle"]
  /\ UNCHANGED <<dir, entries, folderHandle, userConfig>>
  /\ HomeFrame

\* the user picks a directory: setFolderHandle(handle); await readConfig(handle)
FolderPicked(picked) ==
  /\ home.select = "picking"
  /\ home.unlock = "idle" /\ home.start = "idle"
  /\ dir' = picked
  /\ folderHandle' = "handle"
  /\ home' = [home EXCEPT !.select = "readConfig"]
  /\ UNCHANGED <<entries, userConfig>>
  /\ HomeFrame

\* readConfig returned: if (existingConfig) setUserConfig(existingConfig);
\* either way await listEntries(handle)
SelectConfigRead ==
  /\ home.select = "readConfig"
  /\ LET existingConfig == readConfig(dir)
     IN  userConfig' = IF existingConfig.found THEN existingConfig ELSE userConfig
  /\ home' = [home EXCEPT !.select = "listing"]
  /\ UNCHANGED <<dir, entries, folderHandle>>
  /\ HomeFrame

\* listEntries returned: setEntries(entriesMap)
SelectListed ==
  /\ home.select = "listing"
  /\ entries' = listEntries(dir)
  /\ home' = [home EXCEPT !.select = "idle"]
  /\ UNCHANGED <<dir, folderHandle, userConfig>>
  /\ HomeFrame

\* handleStartJournaling with the name typed, up to await writeConfig
handleStartJournaling(name) ==
  /\ folderHandle = "handle" /\ ~userConfig.found /\ ~home.needsUnlock
  /\ ~home.isSaving /\ home.start = "idle"
  /\ home' = IF trimmed(name) = ""
              THEN [home EXCEPT !.error = "Please enter your name"]
              ELSE [home EXCEPT !.isSaving = TRUE, !.error = "", !.start = "writing",
                                !.name = trimmed(name)]
  /\ UNCHANGED <<dir, entries, folderHandle, userConfig>>
  /\ HomeFrame

\* writeConfig resolved: setUserConfig(config); or it rejected: setError(...);
\* finally setIsSaving(false)
StartConfigWritten ==
  /\ home.start = "writing"
  /\ \E resolved \in BOOLEAN :
       IF resolved
       THEN /\ dir' = WrittenConfig(dir, [name |-> home.name])
            /\ userConfig' = [found |-> TRUE, value |-> [name |-> home.name]]
            /\ home' = [home EXCEPT !.start = "idle", !.isSaving = FALSE]
       ELSE /\ home' = [home EXCEPT !.start = "idle", !.isSaving = FALSE,
                                    !.error = "Failed to save configuration"]
            /\ UNCHANGED <<dir, userConfig>>
  /\ UNCHANGED <<entries, folderHandle>>
  /\ HomeFrame

\* the dashboard's handleChangeFolder; router.push('/') mounts a new Home page
handleChangeFolder ==
  /\ folderHandle = "handle" /\ userConfig.found
  /\ folderHandle' = "null"
  /\ userConfig' = NoConfig
  /\ entries' = EmptyObj
  /\ home' = [IdleHome EXCEPT !.select = home.select, !.unlock = home.unlock,
                              !.start = home.start, !.name = home.name,
                              !.pickedFrom = home.pickedFrom]
  /\ UNCHANGED dir
  /\ HomeFrame

\* handleUnlock up to await folderHandle.requestPermission(...)
handleUnlock ==
  /\ home.needsUnlock /\ ~home.isUnlocking /\ home.unlock = "idle"
  /\ folderHandle = "handle"
  /\ home' = [home EXCEPT !.isUnlocking = TRUE, !.unlock = "requesting"]
  /\ UNCHANGED <<dir, entries, folderHandle, userConfig>>
  /\ HomeFrame

\* requestPermission returned or threw
UnlockPermission(outcome) ==
  /\ home.unlock = "requesting"
  /\ CASE outcome = "granted" ->
            /\ home' = [home EXCEPT !.unlock = "readConfig"]
            /\ UNCHANGED folderHandle
       [] outcome = "denied" ->
            /\ home' = [home EXCEPT !.unlock = "idle", !.isUnlocking = FALSE,
                                    !.needsUnlock = FALSE,
                                    !.error = "Permission denied. Please select your journal folder again."]
            /\ folderHandle' = "null"
       [] outcome = "throws" ->
            /\ home' = [home EXCEPT !.unlock = "idle", !.isUnlocking = FALSE,
                                    !.error = "Failed to unlock journal. Please try again."]
            /\ UNCHANGED folderHandle
  /\ UNCHANGED <<dir, entries, userConfig>>
  /\ HomeFrame

\* handleUnlock after await readConfig(folderHandle)
UnlockConfigRead ==
  /\ home.unlock = "readConfig"
  /\ LET existingConfig == readConfig(dir)
     IN  IF existingConfig.found
         THEN /\ userConfig' = existingConfig
              /\ home' = [home EXCEPT !.unlock = "listing"]
         ELSE /\ home' = [home EXCEPT !.unlock = "idle", !.isUnlocking = FALSE,
                                      !.needsUnlock = FALSE]
              /\ UNCHANGED userConfig
  /\ UNCHANGED <<dir, entries, folderHandle>>
  /\ HomeFrame

\* handleUnlock after await listEntries(folderHandle)
UnlockListed ==
  /\ home.unlock = "listing"
  /\ entries' = listEntries(dir)
  /\ home' = [home EXCEPT !.unlock = "idle", !.isUnlocking = FALSE]
  /\ UNCHANGED <<dir, folderHandle, userConfig>>
  /\ HomeFrame

\* "Choose a different folder" on the unlock screen
ChooseDifferentFolder ==
  /\ home.needsUnlock /\ folderHandle = "handle" /\ ~userConfig.found
  /\ home' = [home EXCEPT !.needsUnlock = FALSE]
  /\ folderHandle' = "null"
  /\ UNCHANGED <<dir, entries, userConfig>>
  /\ HomeFrame

NextHome ==
  \/ handleSelectFolder
  \/ PickerCancelled
  \/ \E picked \in HomeDirs : FolderPicked(picked)
  \/ SelectConfigRead
  \/ SelectListed
  \/ \E name \in TypedUserNames : handleStartJournaling(name)
  \/ StartConfigWritten
  \/ handleChangeFolder
  \/ handleUnlock
  \/ \E outcome \in {"granted", "denied", "throws"} : UnlockPermission(outcome)
  \/ UnlockConfigRead
  \/ UnlockListed
  \/ ChooseDifferentFolder

SpecHome == InitHome /\ [][NextHome]_vars

(***************************************************************************)
(* SpecInput: the tag input of the editor of a new entry, fed typed tags   *)
(***************************************************************************)
InitInput ==
  /\ dir = EmptyDir
  /\ clock = 0
  /\ wcall = [c \in Callers |-> IdleWrite]
  /\ dcall = IdleDelete
  /\ entries = EmptyObj
  /\ selectedTags = <<>>
  /\ isUpdatingTags = FALSE
  /\ tagop = IdleTagOp
  /\ done = [d \in Dates |-> <<>>]
  /\ dlog = <<>>
  /\ lab = <<>>
  /\ editor = BlankEditor("d1")
  /\ entriesVersion = [calls |-> 0, reloads |-> 0]
  /\ listings = EmptyBag
  /\ refreshedAt = dir
  /\ removed = {}
  /\ folderHandle = "handle"
  /\ userConfig = readConfig(dir)
  /\ home = IdleHome

\* Enter in the tag input: addTag(input)
ApplyAddTag(tag) ==
  /\ Len(lab) < MaxLabOps
  /\ editor.open /\ ~editor.isPreviewMode
  /\ editor' = debounceEffect([editor EXCEPT !.tags = addTag(editor.tags, tag),
                                              !.quiet = "edited"])
  /\ lab' = Append(lab, [op |-> "addTag", a |-> tag,
                         normalized |-> normalizeTag(tag),
                         hyphenated |-> normalizeTagHyphenating(tag),
                         before |-> editor.tags,
                         after |-> addTag(editor.tags, tag)])
  /\ UNCHANGED <<dir, clock, wcall, dcall, entries, selectedTags, isUpdatingTags,
                 tagop, done, dlog, entriesVersion, listings, refreshedAt, removed, folderHandle, userConfig, home>>

\* the x of a tag chip: removeTag(tag)
ApplyRemoveTag(tag) ==
  /\ Len(lab) < MaxLabOps
  /\ editor.open /\ ~editor.isPreviewMode
  /\ includes(editor.tags, tag)
  /\ editor' = debounceEffect([editor EXCEPT !.tags = removeTag(editor.tags, tag),
                                              !.quiet = "edited"])
  /\ lab' = Append(lab, [op |-> "removeTag", a |-> tag,
                         normalized |-> normalizeTag(tag),
                         hyphenated |-> normalizeTagHyphenating(tag),
                         before |-> editor.tags,
                         after |-> removeTag(editor.tags, tag)])
  /\ UNCHANGED <<dir, clock, wcall, dcall, entries, selectedTags, isUpdatingTags,
                 tagop, done, dlog, entriesVersion, listings, refreshedAt, removed, folderHandle, userConfig, home>>

NextInput ==
  \/ \E tag \in TagStrings : ApplyAddTag(tag)
  \/ \E tag \in TagStrings : ApplyRemoveTag(tag)

SpecInput == InitInput /\ [][NextInput]_vars

(***************************************************************************)
(* Properties of the entry store (Spec)                                    *)
(***************************************************************************)
HasFile(name) == name \in DOMAIN dir /\ dir[name].kind = "file"

\* some writeEntry call for the date has started and not yet settled
WriteInFlight(d) ==
  \E c \in Callers :
    wcall[c].date = d /\ wcall[c].pc \in {"metaOpen", "metaWrite", "bodyOpen", "bodyWrite"}

\* C1: after two writes of a date have completed one after the other, reading
\* the date returns the second write's metadata and body, enumeration returns
\* the second write's metadata under the date, and the directory holds one
\* metadata document for the date.
C1_LastWriteWins ==
  \A d \in Dates :
    (Len(done[d]) = 2 /\ ~WriteInFlight(d)) =>
      LET e2 == done[d][2]
      IN  /\ readEntry(dir, d).found
          /\ readEntry(dir, d).value = Spread(e2.entry, [k \in {"body"} |-> e2.body])
          /\ d \in DOMAIN listEntries(dir)
          /\ listEntries(dir)[d] = e2.entry
          /\ Cardinality({n \in DOMAIN dir : n[1] = d /\ n[2] = "json"}) = 1

C1_Witness ==
  \E d \in Dates :
    /\ Len(done[d]) = 2
    /\ ~WriteInFlight(d)
    /\ done[d][1].entry.title # done[d][2].entry.title
    /\ done[d][1].body # done[d][2].body
    /\ readEntry(dir, d).found
    /\ readEntry(dir, d).value.title = done[d][2].entry.title

\* the files of the date of the last completed deleteEntry call read as absent
AbsentAfterDelete == ~readEntry(dir, dlog[Len(dlog)].date).found

\* no deleteEntry call rejects, and every completed call attempted both removals
DeleteSwallows ==
  /\ dcall.pc # "rejected"
  /\ \A i \in 1..Len(dlog) : dlog[i].meta # "none" /\ dlog[i].body # "none"

C3_PartialPairAbsent ==
  \A d \in Dates :
    LET r == readEntry(dir, d)
        doc == IF HasFile(MetaName(d))
               THEN Parse(dir[MetaName(d)].text)
               ELSE [ok |-> FALSE, value |-> EmptyObj]
    IN  /\ (~HasFile(MetaName(d)) \/ ~HasFile(BodyName(d))) => ~r.found
        /\ r.found => /\ HasFile(MetaName(d)) /\ HasFile(BodyName(d))
                      /\ r.value.body = dir[BodyName(d)].text
                      /\ Without(r.value, {"body"}) = doc.value
        /\ ( /\ doc.ok
             /\ HasFile(BodyName(d)) /\ dir[BodyName(d)].text = <<>> )
           => r.found /\ r.value.body = <<>>

C3_Witness ==
  /\ \E d \in Dates :
       /\ HasFile(MetaName(d)) /\ Parse(dir[MetaName(d)].text).ok
       /\ ~HasFile(BodyName(d))
       /\ ~readEntry(dir, d).found
  /\ wcall["client"].pc = "rejected"

\* C4: enumeration returns exactly the dates whose metadata document decodes,
\* each with the decoded metadata, whatever else in the directory fails to
\* decode; the configuration file is never an index entry.
C4_ListIsolatesCorrupt ==
  LET listed == listEntries(dir)
  IN  /\ \A d \in Dates :
           LET doc == IF HasFile(MetaName(d))
                      THEN Parse(dir[MetaName(d)].text)
                      ELSE [ok |-> FALSE, value |-> EmptyObj]
           IN  /\ d \in DOMAIN listed <=> doc.ok
               /\ d \in DOMAIN listed => listed[d] = doc.value
      /\ DOMAIN listed \subseteq Dates
      /\ "config" \notin DOMAIN entries

C4_Witness ==
  /\ HasFile(ConfigName) /\ Parse(dir[ConfigName].text).ok
  /\ \E d \in Dates : HasFile(MetaName(d)) /\ ~Parse(dir[MetaName(d)].text).ok
  /\ entries = listEntries(dir)
  /\ DOMAIN entries # {}

C6_SameNameRenameWritesNothing ==
  ( /\ tagop.pc # "idle"
    /\ tagop.kind = "rename"
    /\ normalizeTag(tagop.old) = normalizeTag(tagop.new) )
  => /\ DOMAIN tagop.updated = {}
     /\ tagop.wrote = {}
     /\ wcall["dash"].pc = "idle"

(***************************************************************************)
(* Properties of the tag mutator (SpecTags)                                *)
(***************************************************************************)
TagSet(entry) == IF Has(entry, "tags") THEN Elems(entry.tags) ELSE {}

NormSet(tags) == {normalizeTag(tags[i]) : i \in 1..Len(tags)}

\* application i of the run was a rename between names of different normal forms
IsRename(i) ==
  lab[i].op = "rename" /\ normalizeTag(lab[i].a) # normalizeTag(lab[i].b)

\* C7: a rename between different normal forms returns exactly the entries
\* that carry the normalized old tag; in each, the old tag is gone, the new
\* tag is there, every other tag is kept, and no tag occurs twice.
C7_RenameExact ==
  \A i \in 1..Len(lab) :
    IsRename(i) =>
      LET r == lab[i]
          o == normalizeTag(r.a)
          n == normalizeTag(r.b)
      IN  /\ DOMAIN r.result = {id \in DOMAIN r.before : o \in TagSet(r.before[id])}
          /\ \A id \in DOMAIN r.result :
               /\ TagSet(r.result[id]) = (TagSet(r.before[id]) \ {o}) \cup {n}
               /\ NoDup(r.result[id].tags)

C7_Witness ==
  \E i \in 1..Len(lab) :
    /\ IsRename(i)
    /\ lab[i].a # normalizeTag(lab[i].a)
    /\ \E id \in DOMAIN lab[i].result :
         /\ normalizeTag(lab[i].b) \in TagSet(lab[i].before[id])
         /\ Len(lab[i].result[id].tags) = 1
    /\ \E id \in DOMAIN lab[i].before :
         /\ id \notin DOMAIN lab[i].result
         /\ TagSet(lab[i].before[id]) # {}

\* applications i and i+1 are rename(oldTag, newTag) and rename(newTag, oldTag)
IsRoundTrip(i) ==
  /\ lab[i].op = "rename" /\ lab[i + 1].op = "rename"
  /\ lab[i + 1].a = lab[i].b
  /\ lab[i + 1].b = lab[i].a

\* C8 (as stated): renaming there and back restores the tag set of every
\* entry the first rename returned.
C8_AsStated ==
  \A i \in 1..(Len(lab) - 1) :
    IsRoundTrip(i) =>
      \A id \in DOMAIN lab[i].result :
        TagSet(lab[i + 1].after[id]) = TagSet(lab[i].before[id])

\* C8 (amended): renaming there and back restores the tag set of every entry
\* the first rename returned that did not carry the new tag beforehand (or
\* when both names have the same normal form).
C8_RoundTripUnlessMerged ==
  \A i \in 1..(Len(lab) - 1) :
    IsRoundTrip(i) =>
      \A id \in DOMAIN lab[i].result :
        ( \/ normalizeTag(lab[i].a) = normalizeTag(lab[i].b)
          \/ normalizeTag(lab[i].b) \notin TagSet(lab[i].before[id]) )
        => TagSet(lab[i + 1].after[id]) = TagSet(lab[i].before[id])

C8_Witness ==
  \E i \in 1..(Len(lab) - 1) :
    /\ IsRoundTrip(i)
    /\ IsRename(i)
    /\ \E id \in DOMAIN lab[i].result :
         /\ normalizeTag(lab[i].b) \notin TagSet(lab[i].before[id])
         /\ Cardinality(TagSet(lab[i].before[id])) = 2
         /\ TagSet(lab[i].after[id]) # TagSet(lab[i].before[id])
         /\ TagSet(lab[i + 1].after[id]) = TagSet(lab[i].before[id])

\* applications i and i+1 are the same merge
IsMergeTwice(i) ==
  /\ lab[i].op = "merge" /\ lab[i + 1].op = "merge"
  /\ lab[i + 1].tags = lab[i].tags
  /\ lab[i + 1].b = lab[i].b

\* C9 (as stated): the second of two identical merges returns no entry.
C9_AsStated ==
  \A i \in 1..(Len(lab) - 1) : IsMergeTwice(i) => DOMAIN lab[i + 1].result = {}

\* C9 (amended): the second of two identical merges returns no entry when
\* the target's normal form is not among the merged tags; when it is, it
\* returns the entries carrying the target, each with the tag list it had
\* and nothing but updatedAt changed.
C9_MergeTwice ==
  \A i \in 1..(Len(lab) - 1) :
    IsMergeTwice(i) =>
      LET r == lab[i + 1]
          target == normalizeTag(r.b)
      IN  IF target \notin NormSet(r.tags)
          THEN DOMAIN r.result = {}
          ELSE /\ DOMAIN r.result = {id \in DOMAIN r.before : target \in TagSet(r.before[id])}
               /\ \A id \in DOMAIN r.result :
                    Without(r.result[id], {"updatedAt"}) = Without(r.before[id], {"updatedAt"})

C9_Witness ==
  \E i \in 1..(Len(lab) - 1) :
    /\ IsMergeTwice(i)
    /\ normalizeTag(lab[i].b) \notin NormSet(lab[i].tags)
    /\ DOMAIN lab[i].result = DOMAIN lab[i].before
    /\ DOMAIN lab[i + 1].result = {}
    /\ lab[i + 1].after = lab[i].after

\* C10: a merge returns exactly the entries that carry a merged tag; in each,
\* the tags are those it had without the merged ones, plus the target, which
\* occurs once, and no tag occurs twice.
C10_MergeExact ==
  \A i \in 1..Len(lab) :
    lab[i].op = "merge" =>
      LET r == lab[i]
          merged == NormSet(r.tags)
          target == normalizeTag(r.b)
      IN  /\ DOMAIN r.result = {id \in DOMAIN r.before : TagSet(r.before[id]) \cap merged # {}}
          /\ \A id \in DOMAIN r.result :
               /\ TagSet(r.result[id]) = (TagSet(r.before[id]) \ merged) \cup {target}
               /\ Count(r.result[id].tags, target) = 1
               /\ NoDup(r.result[id].tags)

C10_Witness ==
  \E i \in 1..Len(lab) :
    /\ lab[i].op = "merge"
    /\ Len(lab[i].tags) = 2
    /\ normalizeTag(lab[i].b) \notin NormSet(lab[i].tags)
    /\ \E id \in DOMAIN lab[i].result :
         /\ Cardinality(TagSet(lab[i].before[id]) \cap NormSet(lab[i].tags)) = 2
         /\ lab[i].result[id].tags = <<normalizeTag(lab[i].b)>>
    /\ \E id \in DOMAIN lab[i].result :
         /\ TagSet(lab[i].before[id]) \ NormSet(lab[i].tags) # {}
         /\ normalizeTag(lab[i].b) \notin TagSet(lab[i].before[id])
         /\ Len(lab[i].result[id].tags) = 2

(***************************************************************************)
(* Properties of the tag filter (SpecFilter)                               *)
(***************************************************************************)
\* the entries of a map whose normalized tags satisfy a condition
Restrict(ents, ids) == [id \in ids |-> ents[id]]

\* C11: with no tag requested the filter returns the whole map in both
\* modes; with tags requested, AND returns exactly the entries that carry
\* every requested normalized tag and OR exactly those that carry at least
\* one; right after a rename between different normal forms, filtering by
\* the old name returns no entry.
C11_FilterExact ==
  \A i \in 1..Len(lab) :
    lab[i].op = "filter" =>
      LET r == lab[i]
          wanted == NormSet(r.tags)
          carried(id) == IF Has(r.before[id], "tags") THEN NormSet(r.before[id].tags) ELSE {}
      IN  /\ r.tags = <<>> => r.result = r.before
          /\ (r.tags # <<>> /\ r.a = "AND") =>
                r.result = Restrict(r.before,
                                    {id \in DOMAIN r.before : wanted \subseteq carried(id)})
          /\ (r.tags # <<>> /\ r.a = "OR") =>
                r.result = Restrict(r.before,
                                    {id \in DOMAIN r.before : wanted \cap carried(id) # {}})
          /\ (i > 1 /\ IsRename(i - 1) /\ r.tags = <<lab[i - 1].a>>) =>
                DOMAIN r.result = {}

C11_Witness ==
  /\ Len(lab) = 2
  /\ IsRename(1)
  /\ lab[1].a # normalizeTag(lab[1].a)
  /\ DOMAIN lab[1].result # {}
  /\ lab[2].op = "filter"
  /\ lab[2].tags = <<lab[1].a>>
  /\ DOMAIN lab[2].result = {}
  /\ DOMAIN filterEntriesByTags(lab[1].before, lab[2].tags, lab[2].a) # {}
  /\ DOMAIN filterEntriesByTags(lab[1].before, <<"A ", "b">>, "AND")
       # DOMAIN filterEntriesByTags(lab[1].before, <<"A ", "b">>, "OR")

(***************************************************************************)
(* Properties of the dashboard's tag operations (SpecDash)                 *)
(***************************************************************************)
\* lowercase, trimmed, no whitespace inside
IsNormalForm(tag) ==
  LET cs == Spell(tag)
  IN  /\ toLowerCase(cs) = cs
      /\ \A i \in 1..Len(cs) : ~IsSpace(cs[i])

\* C13 (as stated): every tag list in a metadata document holds only tags in
\* normal form (lowercase, trimmed, whitespace inside replaced by hyphens)
\* and no tag twice.
C13_StoredTagsNormalized ==
  \A d \in Dates :
    LET stored == DiskTags(dir, d)
    IN  /\ NoDup(stored)
        /\ \A i \in 1..Len(stored) : IsNormalForm(stored[i])

\* C14: a tag operation has at most one write in flight and starts the next
\* only after the last one resolved; the entries it has written carry their
\* new tags on disk; once a write fails the operation ends as failed with the
\* entries written before still carrying their new tags and the entries not
\* yet visited still carrying the tags they had, and an operation that ends
\* without failure has written every affected entry it could read.
C14_PartialFailure ==
  /\ (tagop.pc = "writing") <=> (wcall["dash"].pc # "idle")
  /\ tagop.wrote \cap tagop.todo = {}
  /\ tagop.pc \in {"loop", "writing", "failed"} =>
       \A date \in tagop.wrote : DiskTags(dir, date) = tagop.updated[date].tags
  /\ tagop.pc = "failed" =>
       /\ \A date \in tagop.todo : DiskTags(dir, date) = tagop.tags0[date]
       /\ ~isUpdatingTags
  /\ tagop.pc = "done" =>
       DOMAIN tagop.updated = tagop.wrote \cup tagop.skipped

C14_Witness ==
  /\ tagop.pc = "failed"
  /\ tagop.kind = "rename"
  /\ normalizeTag(tagop.old) # normalizeTag(tagop.new)
  /\ \E date \in tagop.wrote :
       /\ DiskTags(dir, date) # tagop.tags0[date]
       /\ DiskTags(dir, date) = tagop.updated[date].tags
  /\ DOMAIN tagop.updated \ tagop.wrote # {}
  /\ entries = tagop.base

\* C15: when a tag operation that failed part-way is started again with the
\* same arguments and ends without failure, every date's tags on disk are
\* those the first attempt would have left had it gone through.
C15_RerunConverges ==
  (tagop.pc = "done" /\ tagop.attempt = 2) =>
    \A date \in Dates : Elems(DiskTags(dir, date)) = Elems(tagop.expect[date])

C15_Witness ==
  /\ tagop.pc = "done"
  /\ tagop.attempt = 2
  /\ tagop.prior # {}
  /\ tagop.wrote \ tagop.prior # {}
  /\ \E date \in tagop.wrote \ tagop.prior :
       Elems(DiskTags(dir, date)) # Elems(tagop.base[date].tags)

\* C17 (as stated): after a tag operation that ended without failure, every
\* index entry whose tags differ from those of the index the operation
\* started from was written to storage by the operation.
C17_IndexOnlyWritten ==
  tagop.pc = "done" =>
    \A date \in DOMAIN entries \cap DOMAIN tagop.base :
      TagSet(entries[date]) # TagSet(tagop.base[date]) => date \in tagop.wrote

(***************************************************************************)
(* Properties of the tag input (SpecInput)                                 *)
(***************************************************************************)
\* C12: normalizing a tag twice gives what normalizing it once gives (under
\* either normalizeTag of the repository), and adding a tag whose normal form
\* is already in the tag list leaves the list, and so its size, as it was
C12_NormalizeIdempotent ==
  \A i \in 1..Len(lab) :
    lab[i].op = "addTag" =>
      /\ normalizeTag(lab[i].normalized) = lab[i].normalized
      /\ normalizeTagHyphenating(lab[i].hyphenated) = lab[i].hyphenated
      /\ includes(lab[i].before, lab[i].normalized) =>
           /\ Len(lab[i].after) = Len(lab[i].before)
           /\ Cardinality(Elems(lab[i].after)) = Cardinality(Elems(lab[i].before))

\* a tag typed in another spelling than its normal form, which the list holds
C12_Witness ==
  \E i \in 1..Len(lab) :
    /\ lab[i].op = "addTag"
    /\ lab[i].a # lab[i].normalized
    /\ includes(lab[i].before, lab[i].normalized)

(***************************************************************************)
(* Properties of the editor page (SpecEdit)                                *)
(***************************************************************************)
\* a step of an operation that has not succeeded: a step of a writeEntry call
\* or of its caller's catch block, a step of a tag operation short of its end
UnfinishedStep ==
  \/ \E c \in Callers : wcall'[c] # wcall[c] /\ wcall[c].pc # "resolved"
  \/ tagop' # tagop /\ tagop'.pc # "done"

\* C16: when a write fails, in an editor save or inside a tag operation, no
\* step of that operation, from its start to the handling of the failure,
\* updates the in-memory index or asks for a refresh of it
C16_FailedWriteKeepsIndex ==
  [][UnfinishedStep => (entries' = entries /\ entriesVersion' = entriesVersion)]_vars

\* an editor save has failed after its metadata reached the disk, and a tag
\* operation has failed: the disk differs from the index, no reload is due
C16_Witness ==
  /\ tagop.pc = "failed"
  /\ editor.saveStatus = "error"
  /\ entriesVersion.reloads = entriesVersion.calls
  /\ entries # listEntries(dir)

\* the writeEntry calls of the mounted page that have neither resolved nor rejected
InFlight ==
  {c \in EditorCallers :
     /\ editor.saves[c].active /\ editor.saves[c].mounted
     /\ wcall[c].pc \in {"metaOpen", "metaWrite", "bodyOpen", "bodyWrite"}}

\* C18: within one editing session at most one write for the date is in flight
C18_OneWriteInFlight == Cardinality(InFlight) <= 1

DiskStamp(d, date, k) ==
  LET meta == FileText(d, MetaName(date))
      doc == Parse(meta.text)
  IN  IF meta.ok /\ doc.ok /\ Has(doc.value, k) THEN doc.value[k] ELSE "none"

\* C20: once a metadata document of a date carries a createdAt, every save
\* that replaces the document (an auto-save or manual save of the editor, a
\* write of a tag operation) stores the same createdAt, and an updatedAt
C20_CreatedAtOnce ==
  [][\A date \in EditDates :
       LET before == FileText(dir, MetaName(date))
           after == FileText(dir', MetaName(date))
       IN  (after.ok /\ after.text # <<>> /\ after.text # before.text) =>
             /\ DiskStamp(dir, date, "createdAt") # "none" =>
                  DiskStamp(dir', date, "createdAt") = DiskStamp(dir, date, "createdAt")
             /\ DiskStamp(dir', date, "updatedAt") # "none"]_vars

(***************************************************************************)
(* Agreement of enumeration and read (Spec)                                *)
(***************************************************************************)
\* C28: in every state of the directory, every date that listEntries returns
\* is a date for which readEntry returns a record
C28_ListedIsReadable ==
  \A d \in DOMAIN listEntries(dir) : readEntry(dir, d).found

(***************************************************************************)
(* Frame and selection of the tag operations (SpecDash)                    *)
(***************************************************************************)
\* the tags a running operation is about
AffectedTags(op) ==
  IF op.kind = "merge" THEN NormSet(op.merge) ELSE {normalizeTag(op.old)}

\* the indexed dates that carried one of them when the operation started
AffectedDates(op) ==
  {date \in DOMAIN op.base : TagSet(op.base[date]) \cap AffectedTags(op) # {}}

\* the dates the operation has handed to writeEntry
HandedToWrite(op) ==
  op.wrote \cup (IF wcall["dash"].pc # "idle" THEN {wcall["dash"].date} ELSE {})

\* C26: from the start of a tag operation on, for every date the title, mood,
\* timestamp, weatherContext and createdAt of the metadata on disk and the
\* body on disk are what they were when the operation started, and only
\* entries that carried an affected tag are written
C26_TagOpFrame ==
  tagop.pc \in {"loop", "writing", "done", "failed"} =>
    /\ \A date \in Dates : DiskFrame(dir, date) = tagop.frame0[date]
    /\ HandedToWrite(tagop) \subseteq AffectedDates(tagop)

\* the tags an operation takes away: the renamed or deleted tag, or the
\* merged tags other than the target
RemovedTags(op) ==
  IF op.kind = "merge" THEN Elems(op.merge) \ {op.new}
  ELSE IF op.kind = "rename" /\ op.new = op.old THEN {}
  ELSE {op.old}

\* the tags an operation names
InvolvedTags(op) ==
  (IF op.kind = "merge" THEN Elems(op.merge) ELSE {op.old})
    \cup (IF op.kind = "delete" THEN {} ELSE {op.new})

\* C27: the step that ends a successful tag operation leaves a selection in
\* which no removed tag stands, the rename target stands wherever the renamed
\* tag stood, every selected tag the operation does not name is still
\* selected, no tag stands twice, and which is the old selection when that
\* held none of the tags operated on; the step that ends a failed operation
\* leaves the selection as it was
C27_SelectionRewritten ==
  [][/\ (tagop.pc = "loop" /\ tagop'.pc = "done") =>
          /\ Elems(selectedTags') \cap RemovedTags(tagop) = {}
          /\ tagop.kind = "rename" =>
               /\ Len(selectedTags') = Len(selectedTags)
               /\ \A i \in 1..Len(selectedTags) :
                    selectedTags[i] = tagop.old => selectedTags'[i] = tagop.new
          /\ Elems(selectedTags) \ InvolvedTags(tagop) \subseteq Elems(selectedTags')
          /\ NoDup(selectedTags')
          /\ Elems(selectedTags) \cap (InvolvedTags(tagop) \ {tagop.new}) = {} =>
               selectedTags' = selectedTags
     /\ (tagop.pc = "writing" /\ tagop'.pc = "failed") => selectedTags' = selectedTags]_vars

(***************************************************************************)
(* Two saves of one date (SpecOverlap)                                     *)
(***************************************************************************)
\* the metadata document and the body on disk are those of caller c's write
StoredBy(c) ==
  /\ FileText(dir, MetaName(wcall[c].date)) = [ok |-> TRUE, text |-> Stringify(wcall[c].entry)]
  /\ FileText(dir, BodyName(wcall[c].date)) = [ok |-> TRUE, text |-> wcall[c].body]

\* C29: when both writeEntry calls of the editor for one date have resolved
\* (neither caller has resumed yet), the metadata and the body on disk are
\* those of one and the same call
C29_OverlapWritesWhole ==
  (/\ wcall["client"].pc = "resolved"
   /\ wcall["client2"].pc = "resolved"
   /\ wcall["client"].date = wcall["client2"].date) =>
     (StoredBy("client") \/ StoredBy("client2"))

C23_DeleteFailureSurfaced ==
  [][(/\ dcall.pc # "idle" /\ dcall'.pc = "idle"
      /\ "failed" \in {dcall.meta, dcall.body}) =>
        /\ editor'.error = "Failed to delete entry"
        /\ editor'.open
        /\ entriesVersion' = entriesVersion]_vars

\* C25: when every listEntries call of the effect has returned, every
\* refreshEntries call has had its effect, and the directory is what it was
\* at the last refreshEntries call, the index is listEntries of the directory
C25_IndexIsListing ==
  (/\ entriesVersion.calls > 0
   /\ entriesVersion.reloads = entriesVersion.calls
   /\ listings = EmptyBag
   /\ dir = refreshedAt) =>
     entries = listEntries(dir)

(***************************************************************************)
(* Readiness of the session (SpecHome)                                     *)
(***************************************************************************)
ReadinessNow == Readiness(folderHandle, userConfig, home)

ReadinessNext == Readiness(folderHandle', userConfig', home')

\* the transitions of C24, step by step
ReadinessTransitions ==
  [][/\ (/\ ReadinessNow # ReadinessNext
         /\ {ReadinessNow, ReadinessNext} \subseteq {"Uninitialized", "AwaitingProfile", "Ready"}) =>
           <<ReadinessNow, ReadinessNext>> \in
              { <<"Uninitialized", "AwaitingProfile">>, <<"Uninitialized", "Ready">>,
                <<"AwaitingProfile", "Ready">>, <<"Ready", "Uninitialized">> }
     /\ (home.select = "readConfig" /\ home'.select = "listing"
         /\ home.pickedFrom = "Uninitialized") =>
           ReadinessNext = IF readConfig(dir).found THEN "Ready" ELSE "AwaitingProfile"
     /\ (home.start = "writing" /\ home'.start = "idle" /\ dir' # dir
         /\ ReadinessNow = "AwaitingProfile") =>
           ReadinessNext = "Ready"
     /\ (ReadinessNow = "Ready" /\ folderHandle' = "null") =>
           /\ ReadinessNext = "Uninitialized"
           /\ userConfig' = NoConfig
           /\ entries' = EmptyObj
     /\ (home.select = "picking" /\ home'.select = "idle") =>
           UNCHANGED <<folderHandle, userConfig, entries>>]_vars

\* a loaded profile comes with a handle
ProfileImpliesHandle == userConfig.found => folderHandle = "handle"

\* C24: among Uninitialized, AwaitingProfile and Ready the readiness changes
\* only from Uninitialized to AwaitingProfile or Ready, from AwaitingProfile
\* to Ready and from Ready to Uninitialized; a directory picked from
\* Uninitialized gives Ready when it holds a profile and AwaitingProfile when
\* not; a profile saved in AwaitingProfile gives Ready; Change Folder gives
\* Uninitialized with handle, profile and index reset; a cancelled picker
\* changes nothing; and in every state a loaded profile comes with a handle
C24_Readiness == ReadinessTransitions /\ []ProfileImpliesHandle

\* C21: once the metadata document of a date carries a weatherContext, no
\* step of the editor page (mounting, the entry load and the weather lookup in
\* either order, edits, auto-saves and manual saves) and no write of a tag
\* operation changes the stored weatherContext
C21_WeatherKept ==
  [][\A date \in Dates :
       DiskStamp(dir, date, "weatherContext") # "none"
         => DiskStamp(dir', date, "weatherContext")
              = DiskStamp(dir, date, "weatherContext")]_vars

\* the editor is open in edit mode with a title and a mood
Saveable ==
  /\ editor.open /\ ~editor.isPreviewMode
  /\ trimmed(editor.title) # "" /\ editor.mood # ""

\* the record of the editor's date on disk holds the editor's values
DiskHoldsEditor ==
  LET r == readEntry(dir, editor.date)
  IN  /\ r.found
      /\ Has(r.value, "title") /\ r.value.title = trimmed(editor.title)
      /\ r.value.body = editor.body
      /\ Has(r.value, "mood") /\ r.value.mood = editor.mood
      /\ Has(r.value, "tags") /\ r.value.tags = editor.tags

\* nothing is left to save: no timer is pending and no autoSave call runs
NothingScheduled ==
  /\ editor.timers = <<>>
  /\ \A c \in EditorCallers : ~editor.saves[c].active

\* a timer is pending that the bound on the number of saves keeps from running
SaveBoundReached == clock = MaxSaves /\ editor.timers # <<>>

\* C30: with timers firing and writes succeeding, once the edits stop while
\* the editor is open in edit mode with a title and a mood, the record on disk
\* eventually equals the editor's title, body, mood and tags for good, and
\* no save is scheduled any more
C30_EditsPersisted ==
  \/ []<><<EditStep>>_vars
  \/ <>[]SaveBoundReached
  \/ <>[](Saveable => DiskHoldsEditor /\ NothingScheduled)

====
